---- MODULE Spec2Model ----
(***************************************************************************)
(* The nutrition resolution engine of Macro_Lens                           *)
(* (backend/app/services/nutrition_engine.py) and the /ingredients route   *)
(* in front of it (backend/app/routes/nutrition.py), as a state machine:   *)
(* requests run against the shared engine configuration and the shared     *)
(* Redis cache.                                                            *)
(*                                                                         *)
(* Python values carry their type: [type |-> "str", chars |-> <<...>>],    *)
(* [type |-> "int", val |-> n], [type |-> "NoneType"], dataclass           *)
(* instances [type |-> "NutritionData", ...].  A Python string is the      *)
(* sequence of its characters, so that f-string formatting, lower() and    *)
(* the `in` substring test are computed as Python computes them.           *)
(*                                                                         *)
(* Floats are exact decimals here: a nutrient amount is an integer number  *)
(* of 1/One, a gram weight an integer number of 1/100 g, a confidence a    *)
(* fraction num/den.  Binary floating-point rounding is not modelled.      *)
(***************************************************************************)
EXTENDS Integers, Sequences, FiniteSets, TLC

\* ------------------------------------------------------------ bounds
\* Ingredient resolutions (get_ingredient_nutrition calls) in one behaviour.
MaxResolutions == 2
\* Entries in one recipe's ingredient list.
MaxIngredients == 2
\* Largest quantity a request asks for.
MaxQuantity == 1
\* Clock ticks (of TickSeconds each) a behaviour may take.
MaxTime == 1
\* Largest quantity handed to the converter on its own.
MaxConvertQuantity == 2
\* The longest list of foods a USDA search answers with (pageSize allows 5).
MaxFoods == 2
\* The largest number of servings a /calculate request asks for.
MaxServings == 2

\* ------------------------------------------------------------ numbers
\* 1.0 of a nutrient field (kcal, g or mg), in the fixed-point unit.
One == 100 * 1000
\* The decimal literal whole.tenth, e.g. 0.3 is Dec(0, 3).
Dec(whole, tenth) == whole * One + tenth * (One \div 10)
\* A weight of whole.hundredths grams, in 1/100 g.
Grams(whole, hundredths) == whole * 100 + hundredths
\* A confidence of hundredths/100.
Conf(hundredths) == [num |-> hundredths, den |-> 100]
RatEq(a, b) == a.num * b.den = b.num * a.den
RatLess(a, b) == a.num * b.den < b.num * a.den

RECURSIVE SumSeq(_)
SumSeq(s) == IF s = <<>> THEN 0 ELSE Head(s) + SumSeq(Tail(s))

\* ------------------------------------------------------------ Python values
None == [type |-> "NoneType"]
PyStr(chars) == [type |-> "str", chars |-> chars]
PyInt(n) == [type |-> "int", val |-> n]
\* The float n.0
PyFloat(n) == [type |-> "float", val |-> n]
\* A raised exception, as the outcome of a call.
Raise(exc) == [type |-> "exception", exc |-> exc]
IsRaise(x) == x.type = "exception"
\* str(obj) of a dataclass instance: a str whose text is the instance's repr.
\* It is a str, not the instance: it has no fields and no __dict__.
ReprStr(obj) == [type |-> "str", repr |-> obj]

Digit == <<"0","1","2","3","4","5","6","7","8","9">>
RECURSIVE Digits(_)
Digits(n) == IF n < 10 THEN <<Digit[n + 1]>> ELSE Digits(n \div 10) \o <<Digit[(n % 10) + 1]>>

\* format(v) as an f-string replacement field does it.
Format(v) ==
    CASE v.type = "str" -> v.chars
      [] v.type = "int" -> Digits(v.val)
      [] v.type = "float" -> Digits(v.val) \o <<".","0">>
      [] v.type = "NoneType" -> <<"N","o","n","e">>

UpperCase == <<"A","B","C","D","E","F","G","H","I","J","K","L","M",
               "N","O","P","Q","R","S","T","U","V","W","X","Y","Z">>
LowerCase == <<"a","b","c","d","e","f","g","h","i","j","k","l","m",
               "n","o","p","q","r","s","t","u","v","w","x","y","z">>
LowerChar(c) ==
    IF \E i \in 1..26 : UpperCase[i] = c
    THEN LowerCase[CHOOSE i \in 1..26 : UpperCase[i] = c]
    ELSE c
\* str.lower()
Lower(chars) == [i \in 1..Len(chars) |-> LowerChar(chars[i])]
\* pattern in text, for two strs
Contains(text, pattern) ==
    \E i \in 0..(Len(text) - Len(pattern)) :
        SubSeq(text, i + 1, i + Len(pattern)) = pattern

\* ------------------------------------------------------------ records
NumericFields ==
    {"calories", "protein", "carbohydrates", "fat", "fiber", "sugar",
     "sodium", "cholesterol", "saturated_fat"}

NutritionData(calories, protein, carbohydrates, fat, fiber, sugar, sodium, cholesterol, saturated_fat, source, confidence) ==
    [type |-> "NutritionData",
     calories |-> calories, protein |-> protein,
     carbohydrates |-> carbohydrates, fat |-> fat, fiber |-> fiber,
     sugar |-> sugar, sodium |-> sodium, cholesterol |-> cholesterol,
     saturated_fat |-> saturated_fat, source |-> source,
     confidence |-> confidence]

IngredientNutrition(name, quantity, unit, nutrition_per_100g, total_nutrition) ==
    [type |-> "IngredientNutrition", name |-> name, quantity |-> quantity,
     unit |-> unit, nutrition_per_100g |-> nutrition_per_100g,
     total_nutrition |-> total_nutrition]

\* obj.field: AttributeError when obj is not a NutritionData instance.
IsNutritionData(obj) == obj.type = "NutritionData"

\* ------------------------------------------------------------ engine constants
cache_ttl == 3600 * 24
confidence_threshold == Conf(70)
\* One clock tick of the model, in seconds.
TickSeconds == 24 * 3600

\* ------------------------------------------------------------ estimator
food_categories ==
    << [category |-> "protein",
        patterns |-> <<<<"c","h","i","c","k","e","n">>,
                      <<"b","e","e","f">>,
                      <<"p","o","r","k">>,
                      <<"f","i","s","h">>,
                      <<"t","u","r","k","e","y">>,
                      <<"l","a","m","b">>,
                      <<"m","e","a","t">>>>,
        nutrition |-> NutritionData(Dec(165,0), Dec(25,0), Dec(0,0), Dec(7,0), Dec(0,0), Dec(0,0), Dec(70,0), Dec(55,0), Dec(2,5),
                                   "estimated", Conf(50))],
       [category |-> "dairy",
        patterns |-> <<<<"m","i","l","k">>,
                      <<"c","h","e","e","s","e">>,
                      <<"y","o","g","u","r","t">>,
                      <<"b","u","t","t","e","r">>,
                      <<"c","r","e","a","m">>>>,
        nutrition |-> NutritionData(Dec(150,0), Dec(8,0), Dec(12,0), Dec(8,0), Dec(0,0), Dec(12,0), Dec(100,0), Dec(25,0), Dec(5,0),
                                   "estimated", Conf(50))],
       [category |-> "grains",
        patterns |-> <<<<"r","i","c","e">>,
                      <<"p","a","s","t","a">>,
                      <<"b","r","e","a","d">>,
                      <<"f","l","o","u","r">>,
                      <<"o","a","t","s">>,
                      <<"q","u","i","n","o","a">>>>,
        nutrition |-> NutritionData(Dec(130,0), Dec(4,0), Dec(25,0), Dec(1,0), Dec(2,0), Dec(1,0), Dec(5,0), Dec(0,0), Dec(0,2),
                                   "estimated", Conf(50))],
       [category |-> "vegetables",
        patterns |-> <<<<"c","a","r","r","o","t">>,
                      <<"b","r","o","c","c","o","l","i">>,
                      <<"s","p","i","n","a","c","h">>,
                      <<"t","o","m","a","t","o">>,
                      <<"p","e","p","p","e","r">>,
                      <<"o","n","i","o","n">>>>,
        nutrition |-> NutritionData(Dec(25,0), Dec(2,0), Dec(5,0), Dec(0,2), Dec(3,0), Dec(3,0), Dec(10,0), Dec(0,0), Dec(0,1),
                                   "estimated", Conf(50))],
       [category |-> "fruits",
        patterns |-> <<<<"a","p","p","l","e">>,
                      <<"b","a","n","a","n","a">>,
                      <<"o","r","a","n","g","e">>,
                      <<"b","e","r","r","y">>,
                      <<"g","r","a","p","e">>,
                      <<"p","e","a","c","h">>>>,
        nutrition |-> NutritionData(Dec(50,0), Dec(1,0), Dec(13,0), Dec(0,2), Dec(2,0), Dec(10,0), Dec(2,0), Dec(0,0), Dec(0,1),
                                   "estimated", Conf(50))],
       [category |-> "oils",
        patterns |-> <<<<"o","i","l">>,
                      <<"o","l","i","v","e"," ","o","i","l">>,
                      <<"v","e","g","e","t","a","b","l","e"," ","o","i","l">>,
                      <<"c","o","c","o","n","u","t"," ","o","i","l">>>>,
        nutrition |-> NutritionData(Dec(884,0), Dec(0,0), Dec(0,0), Dec(100,0), Dec(0,0), Dec(0,0), Dec(0,0), Dec(0,0), Dec(15,0),
                                   "estimated", Conf(50))] >>

\* The category search taking the last category that matches.
LastCategory(ingredient_lower, i) ==
    LET matching == {c \in i..Len(food_categories) :
                        \E k \in 1..Len(food_categories[c].patterns) :
                            Contains(ingredient_lower, food_categories[c].patterns[k])}
    IN  IF matching = {} THEN 0
        ELSE CHOOSE c \in matching : \A d \in matching : d <= c

RECURSIVE FirstCategory(_, _)
FirstCategory(ingredient_lower, i) ==
    IF i > Len(food_categories) THEN 0
    ELSE IF \E k \in 1..Len(food_categories[i].patterns) :
                Contains(ingredient_lower, food_categories[i].patterns[k])
         THEN i
         ELSE FirstCategory(ingredient_lower, i + 1)

\* _estimate_nutrition_heuristic whose default is the failed-lookup record.
estimate_nutrition_heuristic_fallback(ingredient_name) ==
    IF ingredient_name.type # "str" THEN Raise("AttributeError")
    ELSE LET ingredient_lower == Lower(ingredient_name.chars)
             i == FirstCategory(ingredient_lower, 1)
         IN  IF i > 0 THEN food_categories[i].nutrition
             ELSE NutritionData(Dec(50,0), Dec(2,0), Dec(8,0), Dec(1,0), Dec(1,0),
                                Dec(3,0), Dec(20,0), Dec(0,0), Dec(0,3),
                                "fallback", Conf(20))

estimate_nutrition_heuristic(ingredient_name) ==
    IF ingredient_name.type # "str" THEN Raise("AttributeError")
    ELSE LET ingredient_lower == Lower(ingredient_name.chars)
             i == FirstCategory(ingredient_lower, 1)
         IN  IF i > 0 THEN food_categories[i].nutrition
             ELSE NutritionData(Dec(100,0), Dec(3,0), Dec(15,0), Dec(2,0), Dec(1,0),
                                Dec(5,0), Dec(50,0), Dec(5,0), Dec(0,5),
                                "estimated", Conf(30))

Max0(x) == IF x < 0 THEN 0 ELSE x

\* _estimate_nutrition_ml without its try/except: the model's error propagates.
estimate_nutrition_ml_unguarded(ml_model, ml, ingredient_name) ==
    IF ml_model = None THEN estimate_nutrition_heuristic(ingredient_name)
    ELSE IF ml.kind = "predict"
         THEN LET p == ml.predictions
              IN  NutritionData(Max0(p[1]), Max0(p[2]), Max0(p[3]), Max0(p[4]),
                                Max0(p[5]), Max0(p[6]), Max0(p[7]), Max0(p[8]),
                                Max0(p[9]), "estimated", Conf(60))
         ELSE Raise("Exception")

\* ml is what the loaded model does with the name: [kind |-> "predict",
\* predictions |-> <<nine amounts>>] or [kind |-> "raise"]; it is not looked
\* at when no model is loaded.
estimate_nutrition_ml(ml_model, ml, ingredient_name) ==
    IF ml_model = None THEN estimate_nutrition_heuristic(ingredient_name)
    ELSE IF ml.kind = "predict"
         THEN LET p == ml.predictions
              IN  NutritionData(Max0(p[1]), Max0(p[2]), Max0(p[3]), Max0(p[4]),
                                Max0(p[5]), Max0(p[6]), Max0(p[7]), Max0(p[8]),
                                Max0(p[9]), "estimated", Conf(60))
         ELSE estimate_nutrition_heuristic(ingredient_name)

estimate_nutrition_fallback(ingredient_name) ==
    NutritionData(Dec(50,0), Dec(2,0), Dec(8,0), Dec(1,0), Dec(1,0), Dec(3,0),
                  Dec(20,0), Dec(0,0), Dec(0,3), "fallback", Conf(20))

\* ------------------------------------------------------------ unit converter
unit_conversions ==
    << <<<<"g">>, Grams(1, 0)>>,
       <<<<"g","r","a","m">>, Grams(1, 0)>>,
       <<<<"g","r","a","m","s">>, Grams(1, 0)>>,
       <<<<"k","g">>, Grams(1000, 0)>>,
       <<<<"k","i","l","o","g","r","a","m">>, Grams(1000, 0)>>,
       <<<<"o","z">>, Grams(28, 35)>>,
       <<<<"o","u","n","c","e">>, Grams(28, 35)>>,
       <<<<"l","b">>, Grams(453, 59)>>,
       <<<<"p","o","u","n","d">>, Grams(453, 59)>>,
       <<<<"c","u","p">>, Grams(240, 0)>>,
       <<<<"t","b","s","p">>, Grams(15, 0)>>,
       <<<<"t","a","b","l","e","s","p","o","o","n">>, Grams(15, 0)>>,
       <<<<"t","s","p">>, Grams(5, 0)>>,
       <<<<"t","e","a","s","p","o","o","n">>, Grams(5, 0)>>,
       <<<<"m","l">>, Grams(1, 0)>>,
       <<<<"l","i","t","e","r">>, Grams(1000, 0)>>,
       <<<<"l">>, Grams(1000, 0)>> >>

cup_weights ==
    << <<<<"f","l","o","u","r">>, Grams(120, 0)>>,
       <<<<"s","u","g","a","r">>, Grams(200, 0)>>,
       <<<<"b","r","o","w","n"," ","s","u","g","a","r">>, Grams(213, 0)>>,
       <<<<"b","u","t","t","e","r">>, Grams(227, 0)>>,
       <<<<"m","i","l","k">>, Grams(240, 0)>>,
       <<<<"w","a","t","e","r">>, Grams(240, 0)>>,
       <<<<"r","i","c","e">>, Grams(185, 0)>>,
       <<<<"p","a","s","t","a">>, Grams(100, 0)>>,
       <<<<"b","r","e","a","d","c","r","u","m","b","s">>, Grams(108, 0)>>,
       <<<<"o","a","t","s">>, Grams(80, 0)>>,
       <<<<"c","o","c","o","n","u","t">>, Grams(80, 0)>>,
       <<<<"n","u","t","s">>, Grams(140, 0)>>,
       <<<<"c","h","o","c","o","l","a","t","e">>, Grams(175, 0)>> >>

RECURSIVE Lookup(_, _, _, _)
\* dict.get(key, default) on a table of <<key, value>> pairs
Lookup(table, key, default, i) ==
    IF i > Len(table) THEN default
    ELSE IF table[i][1] = key THEN table[i][2]
         ELSE Lookup(table, key, default, i + 1)

RECURSIVE FirstContained(_, _, _, _)
\* the value of the first key, in table order, that is a substring of text
FirstContained(table, text, default, i) ==
    IF i > Len(table) THEN default
    ELSE IF Contains(text, table[i][1]) THEN table[i][2]
         ELSE FirstContained(table, text, default, i + 1)

\* _estimate_cup_weight returning the default for every name.
estimate_cup_weight_generic(ingredient_name) == Grams(240, 0)

estimate_cup_weight(ingredient_name) ==
    IF ingredient_name.type # "str" THEN Raise("AttributeError")
    ELSE FirstContained(cup_weights, Lower(ingredient_name.chars), Grams(240, 0), 1)

IsCup(unit_lower) == unit_lower \in {<<"c","u","p">>, <<"c","u","p","s">>}

\* Lines 518-523 without unit.lower(): the table is read with the unit as given.
grams_per_unit_exact_case(unit, ingredient_name) ==
    IF IsCup(unit.chars) THEN estimate_cup_weight(ingredient_name)
    ELSE Lookup(unit_conversions, unit.chars, Grams(100, 0), 1)

\* Lines 518-523: grams_per_unit, for a str unit (and a str name for cups).
grams_per_unit(unit, ingredient_name) ==
    LET unit_lower == Lower(unit.chars)
    IN  IF IsCup(unit_lower) THEN estimate_cup_weight(ingredient_name)
        ELSE Lookup(unit_conversions, unit_lower, Grams(100, 0), 1)

\* value * (total_grams / 100.0), total_grams in 1/100 g
TimesMultiplier(value, total_grams) ==
    (value \div 10000) * total_grams + ((value % 10000) * total_grams) \div 10000

\* The nine fields times the multiplier; source and confidence as they are.
Scale(n, total_grams) ==
    NutritionData(
        TimesMultiplier(n.calories, total_grams),
        TimesMultiplier(n.protein, total_grams),
        TimesMultiplier(n.carbohydrates, total_grams),
        TimesMultiplier(n.fat, total_grams),
        TimesMultiplier(n.fiber, total_grams),
        TimesMultiplier(n.sugar, total_grams),
        TimesMultiplier(n.sodium, total_grams),
        TimesMultiplier(n.cholesterol, total_grams),
        TimesMultiplier(n.saturated_fat, total_grams),
        n.source, n.confidence)

\* _convert_nutrition_to_quantity with total_grams = grams_per_unit: the
\* quantity is left out of the product.
convert_nutrition_per_unit(nutrition_per_100g, quantity, unit, ingredient_name) ==
    IF unit.type # "str" THEN Raise("AttributeError")
    ELSE IF IsCup(Lower(unit.chars)) /\ ingredient_name.type # "str"
    THEN Raise("AttributeError")
    ELSE IF quantity.type \notin {"int", "float"} THEN Raise("TypeError")
    ELSE Scale(nutrition_per_100g, grams_per_unit(unit, ingredient_name))

\* unit.lower() raises for a unit that is no str, ingredient_name.lower() (for
\* cups) for a name that is no str, quantity * grams_per_unit for a quantity
\* that is no number.
convert_nutrition_to_quantity(nutrition_per_100g, quantity, unit, ingredient_name) ==
    IF unit.type # "str" THEN Raise("AttributeError")
    ELSE IF IsCup(Lower(unit.chars)) /\ ingredient_name.type # "str"
    THEN Raise("AttributeError")
    ELSE IF quantity.type \notin {"int", "float"} THEN Raise("TypeError")
    ELSE Scale(nutrition_per_100g,
               quantity.val * grams_per_unit(unit, ingredient_name))

\* ------------------------------------------------------------ state
VARIABLES
    config,     \* the engine's settings and model (NutritionEngine.__init__)
    cache,      \* the Redis store: key -> [text, expires]
    now,        \* the clock, in ticks
    tasks,      \* the requests in flight, one record per task
    resolutions,\* get_ingredient_nutrition calls started so far
    stored      \* history: the cache writes that succeeded, each with the
                \* result its request returned

vars == <<config, cache, now, tasks, resolutions, stored>>

\* bool(v)
Truthy(v) ==
    CASE v.type = "NoneType" -> FALSE
      [] v.type = "str" -> v.chars # <<>>
      [] OTHER -> TRUE

Missing == [type |-> "missing"]
\* d.get(key, default)
DictGet(d, key, default) == IF d[key] = Missing THEN default ELSE d[key]

\* ------------------------------------------------------------ cache glue
\* json.dumps(data, default=str): a value json cannot encode is replaced by
\* its str(); json.loads gives back the dict the text encodes.
JsonValue(v) ==
    IF v.type \in {"str", "int", "float", "NoneType"} THEN v ELSE ReprStr(v)
JsonDumps(data) == [type |-> "json", items |-> [k \in DOMAIN data |-> JsonValue(data[k])]]
JsonLoads(text) == [type |-> "dict", items |-> text.items]

\* result.__dict__ of an IngredientNutrition instance
InstanceDict(obj) ==
    [k \in {"name", "quantity", "unit", "nutrition_per_100g", "total_nutrition"} |-> obj[k]]
\* IngredientNutrition(**cached_data)
FromDict(d) ==
    IngredientNutrition(d.items.name, d.items.quantity, d.items.unit,
                        d.items.nutrition_per_100g, d.items.total_nutrition)

CacheKey(ingredient_name, quantity, unit) ==
    <<"n","u","t","r","i","t","i","o","n",":">> \o Format(ingredient_name)
        \o <<":">> \o Format(quantity) \o <<":">> \o Format(unit)

\* redis_client.get(key): the text stored under key while its TTL runs, None
\* without one; raises when the store cannot be reached.
RedisGet(up, key) ==
    IF ~up THEN Raise("ConnectionError")
    ELSE IF key \in DOMAIN cache /\ now * TickSeconds < cache[key].expires
         THEN cache[key].text
         ELSE None

\* redis_client.setex(key, ttl, text): the store afterwards, or a raise.
RedisSetex(up, key, ttl, text) ==
    IF ~up THEN Raise("ConnectionError")
    ELSE [type |-> "store",
          entries |-> (key :> [text |-> text, expires |-> now * TickSeconds + ttl]) @@ cache]

\* _get_from_cache that loses what it read: it falls through to return None.
get_from_cache_forgets(up, key) == None

\* _get_from_cache without its try/except: the store's error propagates.
get_from_cache_unguarded(up, key) ==
    LET cached_data == RedisGet(up, key)
    IN  IF IsRaise(cached_data) THEN cached_data
        ELSE IF Truthy(cached_data) THEN JsonLoads(cached_data)
        ELSE None

get_from_cache(up, key) ==
    LET cached_data == RedisGet(up, key)
    IN  IF IsRaise(cached_data) THEN None
        ELSE IF Truthy(cached_data) THEN JsonLoads(cached_data)
        ELSE None

\* _save_to_cache with a TTL of one hour.
save_to_cache_hour(up, key, data) ==
    LET r == RedisSetex(up, key, 3600, JsonDumps(data))
    IN  IF IsRaise(r) THEN [type |-> "store", entries |-> cache] ELSE r

\* _save_to_cache writing the record field by field instead of as one text:
\* over an entry that is there, the scaled record of the old entry stays.
save_to_cache_fields(up, key, data) ==
    LET old == RedisGet(up, key)
        mixed == IF IsRaise(old) \/ ~Truthy(old) THEN data
                 ELSE [data EXCEPT !.total_nutrition = JsonLoads(old).items.total_nutrition]
        r == RedisSetex(up, key, cache_ttl, JsonDumps(mixed))
    IN  IF IsRaise(r) THEN [type |-> "store", entries |-> cache] ELSE r

\* _save_to_cache(key, data): the store afterwards (as it was, when setex
\* raised and the except clause logged it).
save_to_cache(up, key, data) ==
    LET r == RedisSetex(up, key, cache_ttl, JsonDumps(data))
    IN  IF IsRaise(r) THEN [type |-> "store", entries |-> cache] ELSE r

\* ------------------------------------------------------------ providers
\* What an external API answers: a food with nine amounts, nothing, an
\* error (non-200 status, network error) or an exception of the HTTP client
\* (a timeout of the client's own included).
UpstreamAmounts ==
    {<<Dec(127,4), Dec(2,7), Dec(28,4), Dec(0,3), Dec(0,4), Dec(0,1),
       Dec(100,0), Dec(0,0), Dec(0,1)>>}
ProviderOutcomes ==
    {[kind |-> "record", amounts |-> a] : a \in UpstreamAmounts}
        \cup {[kind |-> "no_result"], [kind |-> "error"], [kind |-> "timeout"]}

get_api_ninjas_nutrition(outcome) ==
    IF outcome.kind = "record"
    THEN LET a == outcome.amounts
         IN  NutritionData(a[1], a[2], a[3], a[4], a[5], a[6], a[7], a[8], a[9],
                           "api_ninjas", Conf(85))
    ELSE None

get_spoonacular_nutrition(outcome) ==
    IF outcome.kind = "record"
    THEN LET a == outcome.amounts
         IN  NutritionData(a[1], a[2], a[3], a[4], a[5], a[6], a[7] \div 1000, a[8], a[9],
                           "spoonacular", Conf(80))
    ELSE None

get_usda_nutrition(outcome) ==
    IF outcome.kind = "record"
    THEN LET a == outcome.amounts
         IN  NutritionData(a[1], a[2], a[3], a[4], a[5], a[6], a[7], a[8], a[9],
                           "usda", Conf(90))
    ELSE None

\* What the loaded model may do with a name.
MlOutcomes ==
    IF config.ml_model = None THEN {[kind |-> "none"]}
    ELSE {[kind |-> "predict", predictions |-> a] : a \in UpstreamAmounts}
             \cup {[kind |-> "raise"]}

\* ------------------------------------------------------------ USDA match
\* str.split(): the words between runs of blanks.
RECURSIVE Split(_)
Split(chars) ==
    IF chars = <<>> THEN <<>>
    ELSE IF Head(chars) = " " THEN Split(Tail(chars))
    ELSE LET blanks == {i \in 1..Len(chars) : chars[i] = " "}
             n == IF blanks = {} THEN Len(chars) + 1
                  ELSE CHOOSE i \in blanks : \A j \in blanks : i <= j
         IN  <<SubSeq(chars, 1, n - 1)>> \o Split(SubSeq(chars, n, Len(chars)))

\* The score of lines 350-364 without the bonus for the whole query.
usda_food_score_words_only(food, ingredient_lower) ==
    LET description == Lower(DictGet(food, "description", PyStr(<<>>)).chars)
        ingredient_words == Split(ingredient_lower)
    IN  Cardinality({k \in 1..Len(ingredient_words) :
                        Contains(description, ingredient_words[k])})
            + (IF DictGet(food, "dataType", None) = PyStr(<<"F","o","u","n","d","a","t","i","o","n">>)
               THEN 1 ELSE 0)

\* Lines 350-364: the score of one food.
usda_food_score(food, ingredient_lower) ==
    LET description == Lower(DictGet(food, "description", PyStr(<<>>)).chars)
        ingredient_words == Split(ingredient_lower)
    IN  Cardinality({k \in 1..Len(ingredient_words) :
                        Contains(description, ingredient_words[k])})
            + (IF Contains(description, ingredient_lower) THEN 5 ELSE 0)
            + (IF DictGet(food, "dataType", None) = PyStr(<<"F","o","u","n","d","a","t","i","o","n">>)
               THEN 1 ELSE 0)

\* Lines 349-370: the loop over foods from position i on, with the best
\* match and the best score so far.
RECURSIVE BestUsdaMatch(_, _, _, _, _)
BestUsdaMatch(foods, ingredient_lower, i, best_match, best_score) ==
    IF i > Len(foods) THEN [best_match |-> best_match, best_score |-> best_score]
    ELSE IF usda_food_score(foods[i], ingredient_lower) > best_score
         THEN BestUsdaMatch(foods, ingredient_lower, i + 1, foods[i],
                            usda_food_score(foods[i], ingredient_lower))
         ELSE BestUsdaMatch(foods, ingredient_lower, i + 1, best_match, best_score)

\* _find_best_usda_match(foods, ingredient_name)
find_best_usda_match(foods, ingredient_name) ==
    LET best == BestUsdaMatch(foods, Lower(ingredient_name.chars), 1, None, 0)
    IN  IF best.best_score > 0 THEN best.best_match ELSE None

\* Lines 198-206 of _get_usda_nutrition for a search answered with foods,
\* then the detail request answered with detail (a provider outcome).
search_usda_nutrition(foods, ingredient_name, detail) ==
    IF foods = <<>> THEN None
    ELSE IF ~Truthy(find_best_usda_match(foods, ingredient_name)) THEN None
    ELSE get_usda_nutrition(detail)

\* ------------------------------------------------------------ tasks
TaskIds == DOMAIN tasks

ZeroTotal ==
    NutritionData(0, 0, 0, 0, 0, 0, 0, 0, 0, "calculated", [num |-> 0, den |-> 1])

IdleTask ==
    [pc |-> "idle", kind |-> "none", ingredients |-> <<>>, idx |-> 0,
     nutrition_data |-> None, result |-> None,
     ingredient_nutritions |-> <<>>, total_nutrition |-> ZeroTotal,
     confidence_scores |-> <<>>, log |-> <<>>, response |-> None,
     cancelled |-> "none"]

\* The arguments of the engine call for entry idx: the route passes its
\* parameters, the recipe loop ingredient["name"], ingredient.get("quantity", 1)
\* and ingredient.get("unit", "cup").
ArgsAt(task, idx) ==
    LET ingredient == task.ingredients[idx]
    IN  IF task.kind = "recipe"
        THEN [name |-> ingredient.name,
              quantity |-> DictGet(ingredient, "quantity", PyInt(1)),
              unit |-> DictGet(ingredient, "unit", PyStr(<<"c","u","p">>))]
        ELSE ingredient
ArgName(task) == ArgsAt(task, task.idx).name
ArgQuantity(task) == ArgsAt(task, task.idx).quantity
ArgUnit(task) == ArgsAt(task, task.idx).unit
ArgKey(task) == CacheKey(ArgName(task), ArgQuantity(task), ArgUnit(task))

\* The log entry of the resolution in progress (the last one).
Cur(task) == task.log[Len(task.log)]
SetCur(task, field, value) ==
    [task EXCEPT !.log[Len(task.log)][field] = value]

\* The call in progress called `provider`, which returned value.
Called(task, provider, value) ==
    [task EXCEPT !.log[Len(task.log)].calls = Append(@, provider),
                 !.log[Len(task.log)].returned = Append(@, value)]

\* np.mean(confidence_scores) if confidence_scores else 0.0
MeanConfidence(confidence_scores) ==
    IF confidence_scores = <<>> THEN [num |-> 0, den |-> 1]
    ELSE [num |-> SumSeq([i \in 1..Len(confidence_scores) |-> confidence_scores[i].num]),
          den |-> 100 * Len(confidence_scores)]

\* ------------------------------------------------------------ aggregator
\* calls: who was called, in call order; returned: what each call returned;
\* ml: what the loaded model did in the estimator ("unused": not called).
NewLogEntry(task, idx) ==
    [seq |-> resolutions + 1, idx |-> idx, read |-> "pending", readAt |-> now,
     calls |-> <<>>, returned |-> <<>>, ml |-> "unused",
     write |-> "none", raised |-> "none"]

\* Lines 117-126: the overall confidence and the returned dict.
FinishRecipe(task) ==
    LET total == [task.total_nutrition EXCEPT
                     !.confidence = MeanConfidence(task.confidence_scores)]
    IN  [task EXCEPT
            !.pc = "done",
            !.total_nutrition = total,
            !.response = [type |-> "dict",
                          total_nutrition |-> total,
                          ingredient_nutritions |-> task.ingredient_nutritions,
                          calculation_method |-> "usda_api_ml_hybrid",
                          confidence_score |-> total.confidence]]

\* The exception leaves calculate_recipe_nutrition.
AbortRecipe(task, exc) ==
    [task EXCEPT !.pc = "done", !.response = Raise(exc)]

\* Lines 87-94: the loop takes entry idx and calls the engine with its
\* fields; the call runs to its first await, the cache read.
BeginIngredient(task, idx) ==
    LET t1 == [task EXCEPT
                  !.idx = idx, !.nutrition_data = None, !.result = None,
                  !.log = Append(@, NewLogEntry(task, idx))]
    IN  IF task.ingredients[idx].name = Missing
        \* ingredient["name"] raises KeyError in the try block, and again in
        \* the handler's log line.
        THEN AbortRecipe(SetCur(t1, "raised", "KeyError"), "KeyError")
        ELSE [t1 EXCEPT !.pc = "cache_get"]

NextIngredient(task) ==
    IF task.idx < Len(task.ingredients)
    THEN BeginIngredient(task, task.idx + 1)
    ELSE FinishRecipe(task)

\* The handler as a bare `raise`: the exception leaves the loop.
HandlerReraises(task, exc) ==
    AbortRecipe(SetCur(task, "raised", exc), exc)

\* Lines 111-115: the per-ingredient handler.
Handler(task, exc) ==
    IF task.ingredients[task.idx].name = Missing
    THEN AbortRecipe(SetCur(task, "raised", "KeyError"), "KeyError")
    ELSE LET fallback_nutrition == estimate_nutrition_fallback(ArgName(task))
         IN  NextIngredient(
                 [SetCur(task, "raised", exc) EXCEPT
                     !.confidence_scores = Append(@, Conf(30))])

\* Lines 96-109: the breakdown entry, the nine sums, the confidence.
Accumulate(task, ingredient_nutrition) ==
    LET t1 == [task EXCEPT
                  !.ingredient_nutritions = Append(@, ingredient_nutrition)]
        n == ingredient_nutrition.total_nutrition
        tot == task.total_nutrition
    IN  IF ~IsNutritionData(n) THEN Handler(t1, "AttributeError")
        ELSE NextIngredient(
                 [t1 EXCEPT
                     !.total_nutrition =
                         [tot EXCEPT
                             !.calories = @ + n.calories,
                             !.protein = @ + n.protein,
                             !.carbohydrates = @ + n.carbohydrates,
                             !.fat = @ + n.fat,
                             !.fiber = @ + n.fiber,
                             !.sugar = @ + n.sugar,
                             !.sodium = @ + n.sodium,
                             !.cholesterol = @ + n.cholesterol,
                             !.saturated_fat = @ + n.saturated_fat],
                     !.confidence_scores = Append(@, n.confidence)])

\* ------------------------------------------------------------ route
\* routes/nutrition.py, lines 41-60: the response built from the engine's
\* result, or the HTTPException raised for any exception.
RouteResponse(value) ==
    IF IsRaise(value) THEN [type |-> "response", status |-> 500]
    ELSE IF ~IsNutritionData(value.nutrition_per_100g)
              \/ ~IsNutritionData(value.total_nutrition)
         THEN [type |-> "response", status |-> 500]
         ELSE [type |-> "response", status |-> 200,
               ingredient |-> [name |-> value.name, quantity |-> value.quantity,
                               unit |-> value.unit],
               nutrition_per_100g |-> value.nutrition_per_100g,
               total_nutrition |-> value.total_nutrition]

\* routes/nutrition.py, lines 84-97 and 111-115 of calculate_nutrition: the
\* total the engine returned is divided in place when servings > 1, then
\* the response is built from that same object. a / b is Python's true
\* division; the totals it is applied to here are multiples of b * b.
calculate_nutrition_response(total_nutrition, servings) ==
    LET adjusted == IF servings > 1
                    THEN [f \in DOMAIN total_nutrition |->
                             IF f \in NumericFields THEN total_nutrition[f] \div servings
                             ELSE total_nutrition[f]]
                    ELSE total_nutrition
    IN  IF servings = 0 THEN [type |-> "response", status |-> 500]
        ELSE [type |-> "response", status |-> 200,
              total_nutrition |-> adjusted,
              per_serving |-> IF servings = 1 THEN adjusted
                              ELSE [f \in NumericFields |-> adjusted[f] \div servings],
              servings |-> servings]

\* get_ingredient_nutrition returns value (or raises it) to its caller.
ReturnFromEngine(task, value) ==
    LET t1 == [task EXCEPT !.result = value]
    IN  IF task.kind = "lookup"
        THEN [(IF IsRaise(value) THEN SetCur(t1, "raised", value.exc) ELSE t1) EXCEPT
                 !.pc = "done", !.response = RouteResponse(value)]
        ELSE IF IsRaise(value) THEN Handler(t1, value.exc)
             ELSE Accumulate(t1, value)

\* ------------------------------------------------------------ resolver
\* Lines 154-169: the estimator when no provider gave a record above the
\* threshold, the conversion, the result; then the await of the cache write.
\* Lines 163-169: the result built from the converted record, or the
\* conversion's exception.
AfterConvert(task, nd, total_nutrition) ==
    IF IsRaise(total_nutrition) THEN ReturnFromEngine(task, total_nutrition)
    ELSE [task EXCEPT
             !.pc = "cache_set",
             !.result = IngredientNutrition(ArgName(task), ArgQuantity(task),
                                            ArgUnit(task), nd, total_nutrition)]

\* Lines 154-161 once nd is known: the estimator's call is logged when it
\* was called, then the conversion.
AfterEstimate(task, estimate, nd, ml) ==
    LET t1 == IF estimate
              THEN [task EXCEPT
                       !.log[Len(task.log)].calls = Append(@, "estimator"),
                       !.log[Len(task.log)].returned = Append(@, nd),
                       !.log[Len(task.log)].ml =
                           IF Truthy(config.ml_model) THEN ml.kind ELSE "none",
                       !.nutrition_data = nd]
              ELSE [task EXCEPT !.nutrition_data = nd]
    IN  IF IsRaise(nd) THEN ReturnFromEngine(t1, nd)
        ELSE AfterConvert(t1, nd,
                          convert_nutrition_to_quantity(nd, ArgQuantity(task),
                                                        ArgUnit(task), ArgName(task)))

\* if not nutrition_data or nutrition_data.confidence < self.confidence_threshold
NeedsEstimate(nutrition_data) ==
    ~Truthy(nutrition_data) \/ RatLess(nutrition_data.confidence, confidence_threshold)

AfterCascade(task, nutrition_data, ml) ==
    AfterEstimate(task, NeedsEstimate(nutrition_data),
                  IF NeedsEstimate(nutrition_data)
                  THEN estimate_nutrition_ml(config.ml_model, ml, ArgName(task))
                  ELSE nutrition_data,
                  ml)

\* Lines 142-152: which provider is called next, after the providers up to
\* position `after` of the order (0: none yet) left nutrition_data.
ProviderOrder == <<"api_ninjas", "spoonacular", "usda">>
\* The cascade without `not nutrition_data`: every configured provider is called.
WantedAlways(position, nutrition_data) ==
    CASE position = 1 -> Truthy(config.api_ninjas_key)
      [] position = 2 -> Truthy(config.spoonacular_api_key)
      [] position = 3 -> Truthy(config.usda_api_key)

\* The cascade without the credential tests.
WantedUnconfigured(position, nutrition_data) ==
    CASE position = 1 -> TRUE
      [] position = 2 -> ~Truthy(nutrition_data)
      [] position = 3 -> ~Truthy(nutrition_data)

Wanted(position, nutrition_data) ==
    CASE position = 1 -> Truthy(config.api_ninjas_key)
      [] position = 2 -> ~Truthy(nutrition_data) /\ Truthy(config.spoonacular_api_key)
      [] position = 3 -> ~Truthy(nutrition_data) /\ Truthy(config.usda_api_key)

Cascade(task, nutrition_data, after, ml) ==
    LET next == {p \in (after + 1)..3 : Wanted(p, nutrition_data)}
    IN  IF next = {} THEN AfterCascade(task, nutrition_data, ml)
        ELSE LET p == CHOOSE p \in next : \A q \in next : p <= q
             IN  [task EXCEPT !.pc = ProviderOrder[p], !.nutrition_data = nutrition_data]

\* Lines 132-137 after the cache answered cached_data.
AfterCacheRead(task, cached_data, ml) ==
    IF IsRaise(cached_data) THEN ReturnFromEngine(task, cached_data)
    ELSE IF Truthy(cached_data)
    THEN ReturnFromEngine(task, FromDict(cached_data))
    ELSE Cascade(task, None, 0, ml)

\* ------------------------------------------------------------ inputs
Names == {PyStr(<<"r","i","c","e">>), PyStr(<<"r","i","c","e",":","1",".","0">>)}
Units == {PyStr(<<"g">>), PyStr(<<"1",".","0",":","g">>)}
\* The route's quantity parameter is a float.
Quantities == {PyFloat(q) : q \in 1..MaxQuantity}
\* The entries callers hand to calculate_recipe_nutrition: a name always
\* (recipe_service reads entry["name"] before the engine is called), a
\* quantity that is a JSON number or null (extracted recipes).
RecipeQuantities == {PyInt(q) : q \in 1..MaxQuantity} \cup {None}
RecipeEntries == [name : Names, quantity : RecipeQuantities, unit : Units]
Recipes == UNION {[1..n -> RecipeEntries] : n \in 0..MaxIngredients}
Keys == {PyStr(<<>>), PyStr(<<"k">>)}
Configs ==
    [api_ninjas_key : Keys, spoonacular_api_key : Keys, usda_api_key : Keys,
     ml_model : {None}]
\* The model _load_ml_model unpickled from models/nutrition_model.pkl.
Loaded == [type |-> "model"]
\* Deployments with and without the model files: no provider credential, or
\* all three.
ConfigsMl ==
    {c \in [api_ninjas_key : Keys, spoonacular_api_key : Keys, usda_api_key : Keys,
            ml_model : {None, Loaded}] :
        c.api_ninjas_key = c.spoonacular_api_key /\ c.spoonacular_api_key = c.usda_api_key}

\* The deployment with every credential set: a miss calls the providers in
\* their order.
ConcurrentConfigs == {c \in Configs : \A k \in DOMAIN c : k = "ml_model" \/ Truthy(c[k])}

\* ------------------------------------------------------------ actions
Init ==
    /\ config \in Configs
    /\ cache = <<>>
    /\ now = 0
    /\ tasks = [t \in {1} |-> IdleTask]
    /\ resolutions = 0
    /\ stored = {}

\* GET /ingredients/{ingredient_name}?quantity=&unit= with parameters from
\* the given sets
StartLookupFrom(t, names, quantities, units) ==
    /\ tasks[t].pc \in {"idle", "done"}
    /\ resolutions < MaxResolutions
    /\ \E name \in names, quantity \in quantities, unit \in units :
        LET t0 == [IdleTask EXCEPT
                      !.kind = "lookup",
                      !.ingredients = <<[name |-> name, quantity |-> quantity, unit |-> unit]>>]
        IN  tasks' = [tasks EXCEPT ![t] =
                         [t0 EXCEPT !.idx = 1, !.pc = "cache_get",
                                    !.log = <<NewLogEntry(t0, 1)>>]]
    /\ resolutions' = resolutions + 1
    /\ UNCHANGED <<config, cache, now, stored>>

StartLookup(t) == StartLookupFrom(t, Names, Quantities, Units)

\* calculate_recipe_nutrition(ingredients), lines 78-94, for a list from the
\* given set
StartRecipeFrom(t, recipes) ==
    /\ tasks[t].pc \in {"idle", "done"}
    /\ \E ingredients \in recipes :
        /\ resolutions + Len(ingredients) <= MaxResolutions
        /\ LET new == NextIngredient([IdleTask EXCEPT !.kind = "recipe",
                                                     !.ingredients = ingredients])
           IN  /\ tasks' = [tasks EXCEPT ![t] = new]
               /\ resolutions' = resolutions + Len(new.log)
    /\ UNCHANGED <<config, cache, now, stored>>

StartRecipe(t) == StartRecipeFrom(t, Recipes)

\* await self._get_from_cache(cache_key), and on to the next await
CacheGet(t) ==
    /\ tasks[t].pc = "cache_get"
    /\ \E up \in BOOLEAN, ml \in MlOutcomes :
        LET task == tasks[t]
            cached_data == get_from_cache(up, ArgKey(task))
            read == IF ~up THEN "unavailable"
                    ELSE IF IsRaise(cached_data) \/ ~Truthy(cached_data) THEN "miss"
                    ELSE "hit"
            t1 == SetCur(SetCur(task, "read", read), "readAt", now)
            new == AfterCacheRead(t1, cached_data, ml)
        IN  /\ tasks' = [tasks EXCEPT ![t] = new]
            /\ resolutions' = resolutions + Len(new.log) - Len(task.log)
    /\ UNCHANGED <<config, cache, now, stored>>

\* await self._get_api_ninjas_nutrition(ingredient_name)
CallApiNinjas(t) ==
    /\ tasks[t].pc = "api_ninjas"
    /\ \E outcome \in ProviderOutcomes, ml \in MlOutcomes :
        LET task == tasks[t]
            new == Cascade(Called(task, "api_ninjas", get_api_ninjas_nutrition(outcome)),
                           get_api_ninjas_nutrition(outcome), 1, ml)
        IN  /\ tasks' = [tasks EXCEPT ![t] = new]
            /\ resolutions' = resolutions + Len(new.log) - Len(task.log)
    /\ UNCHANGED <<config, cache, now, stored>>

\* await self._get_spoonacular_nutrition(ingredient_name)
CallSpoonacular(t) ==
    /\ tasks[t].pc = "spoonacular"
    /\ \E outcome \in ProviderOutcomes, ml \in MlOutcomes :
        LET task == tasks[t]
            new == Cascade(Called(task, "spoonacular", get_spoonacular_nutrition(outcome)),
                           get_spoonacular_nutrition(outcome), 2, ml)
        IN  /\ tasks' = [tasks EXCEPT ![t] = new]
            /\ resolutions' = resolutions + Len(new.log) - Len(task.log)
    /\ UNCHANGED <<config, cache, now, stored>>

\* await self._get_usda_nutrition(ingredient_name)
CallUsda(t) ==
    /\ tasks[t].pc = "usda"
    /\ \E outcome \in ProviderOutcomes, ml \in MlOutcomes :
        LET task == tasks[t]
            new == Cascade(Called(task, "usda", get_usda_nutrition(outcome)),
                           get_usda_nutrition(outcome), 3, ml)
        IN  /\ tasks' = [tasks EXCEPT ![t] = new]
            /\ resolutions' = resolutions + Len(new.log) - Len(task.log)
    /\ UNCHANGED <<config, cache, now, stored>>

\* await self._save_to_cache(cache_key, result.__dict__), and the return
CacheSet(t) ==
    /\ tasks[t].pc = "cache_set"
    /\ \E up \in BOOLEAN :
        LET task == tasks[t]
            saved == save_to_cache(up, ArgKey(task), InstanceDict(task.result))
            t1 == SetCur(task, "write", IF up THEN "ok" ELSE "unavailable")
            new == ReturnFromEngine(t1, IF IsRaise(saved) THEN saved ELSE task.result)
        IN  /\ cache' = IF IsRaise(saved) THEN cache ELSE saved.entries
            /\ tasks' = [tasks EXCEPT ![t] = new]
            /\ resolutions' = resolutions + Len(new.log) - Len(task.log)
            /\ stored' = IF up /\ ~IsRaise(saved)
                         THEN stored \cup {[name |-> ArgName(task),
                                            quantity |-> ArgQuantity(task),
                                            unit |-> ArgUnit(task),
                                            seq |-> Cur(task).seq, at |-> now,
                                            result |-> task.result]}
                         ELSE stored
    /\ UNCHANGED <<config, now>>

\* Time passes; Redis drops the entries whose TTL has run out.
Tick ==
    /\ now < MaxTime
    /\ now' = now + 1
    /\ cache' = [k \in {k \in DOMAIN cache : (now + 1) * TickSeconds < cache[k].expires}
                    |-> cache[k]]
    /\ UNCHANGED <<config, tasks, resolutions, stored>>

Next ==
    \/ \E t \in TaskIds :
        \/ StartLookup(t)
        \/ StartRecipe(t)
        \/ CacheGet(t)
        \/ CallApiNinjas(t)
        \/ CallSpoonacular(t)
        \/ CallUsda(t)
        \/ CacheSet(t)
    \/ Tick

Spec == Init /\ [][Next]_vars

\* The same machine started in a deployment that may have the model files.
InitMl ==
    /\ config \in ConfigsMl
    /\ cache = <<>>
    /\ now = 0
    /\ tasks = [t \in {1} |-> IdleTask]
    /\ resolutions = 0
    /\ stored = {}

SpecMl == InitMl /\ [][Next]_vars

\* ------------------------------------------------------------ any entries
\* calculate_recipe_nutrition called with entries of any shape a List[Dict]
\* admits: "name", "quantity" or "unit" absent, "quantity" or "unit" null.
AnyEntries ==
    [name : {PyStr(<<"r","i","c","e">>), Missing},
     quantity : {PyInt(1), None, Missing},
     unit : {PyStr(<<"g">>), None, Missing}]
AnyRecipes == UNION {[1..n -> AnyEntries] : n \in 0..MaxIngredients}

StartAnyRecipe(t) ==
    /\ tasks[t].pc \in {"idle", "done"}
    /\ \E ingredients \in AnyRecipes :
        /\ resolutions + Len(ingredients) <= MaxResolutions
        /\ LET new == NextIngredient([IdleTask EXCEPT !.kind = "recipe",
                                                     !.ingredients = ingredients])
           IN  /\ tasks' = [tasks EXCEPT ![t] = new]
               /\ resolutions' = resolutions + Len(new.log)
    /\ UNCHANGED <<config, cache, now, stored>>

NextEntries ==
    \E t \in TaskIds :
        \/ StartAnyRecipe(t)
        \/ CacheGet(t)
        \/ CallApiNinjas(t)
        \/ CallSpoonacular(t)
        \/ CallUsda(t)
        \/ CacheSet(t)

SpecEntries == Init /\ [][NextEntries]_vars

\* ------------------------------------------------------------ cancellation
\* `except Exception` with everything as an Exception (asyncio.CancelledError
\* as it was before Python 3.8).
IsAnyException(exc) == TRUE

\* `except Exception as e`: asyncio.CancelledError derives from BaseException,
\* every other exception of this program from Exception.
IsException(exc) == exc # "CancelledError"

\* exc is raised at the await the task is suspended in. The helper the await
\* is in (a provider, _get_from_cache, _save_to_cache) has the first
\* `except Exception`, which turns exc into its no-result; what it does not
\* catch passes get_ingredient_nutrition (no handler) and the loop's `except
\* Exception` (the same test) and leaves calculate_recipe_nutrition.
ThrowAtAwait(task, exc, ml) ==
    IF IsException(exc)
    THEN CASE task.pc = "cache_get" -> AfterCacheRead(SetCur(task, "read", "miss"), None, ml)
           [] task.pc = "api_ninjas" -> Cascade(Called(task, "api_ninjas", None), None, 1, ml)
           [] task.pc = "spoonacular" -> Cascade(Called(task, "spoonacular", None), None, 2, ml)
           [] task.pc = "usda" -> Cascade(Called(task, "usda", None), None, 3, ml)
           [] task.pc = "cache_set" -> ReturnFromEngine(task, task.result)
    ELSE AbortRecipe(SetCur(task, "raised", exc), exc)

\* The task running calculate_recipe_nutrition is cancelled while it waits
\* for the cache or a provider: CancelledError is raised at that await. A
\* cache write in flight may or may not have reached the store.
Cancel(t) ==
    /\ tasks[t].kind = "recipe"
    /\ tasks[t].pc \in {"cache_get", "api_ninjas", "spoonacular", "usda", "cache_set"}
    /\ \E ml \in MlOutcomes, written \in BOOLEAN :
        LET task == tasks[t]
            new == ThrowAtAwait([task EXCEPT !.cancelled = task.pc], "CancelledError", ml)
            saved == save_to_cache(TRUE, ArgKey(task), InstanceDict(task.result))
        IN  /\ tasks' = [tasks EXCEPT ![t] = new]
            /\ resolutions' = resolutions + Len(new.log) - Len(task.log)
            /\ cache' = IF task.pc = "cache_set" /\ written THEN saved.entries ELSE cache
    /\ UNCHANGED <<config, now, stored>>

NextCancel ==
    \E t \in TaskIds :
        \/ StartRecipe(t)
        \/ CacheGet(t)
        \/ CallApiNinjas(t)
        \/ CallSpoonacular(t)
        \/ CallUsda(t)
        \/ CacheSet(t)
        \/ Cancel(t)

SpecCancel == Init /\ [][NextCancel]_vars

\* ------------------------------------------------------------ concurrent requests
\* Two requests in flight on the one engine (the module's global instance):
\* each coroutine has its own arguments and locals, and the event loop runs
\* one of them from an await to its next await at a time.
InitConcurrent ==
    /\ config \in ConcurrentConfigs
    /\ cache = <<>>
    /\ now = 0
    /\ tasks = [t \in {1, 2} |-> IdleTask]
    /\ resolutions = 0
    /\ stored = {}

\* The requests: lookups of one name in one unit and recipes of numbered
\* quantities of it, so that two requests can ask for the same triple.
ConcurrentNames == {PyStr(<<"r","i","c","e">>)}
ConcurrentUnits == {PyStr(<<"g">>)}
ConcurrentRecipes ==
    {r \in Recipes :
        \A i \in DOMAIN r : /\ r[i].name \in ConcurrentNames
                             /\ r[i].unit \in ConcurrentUnits
                             /\ r[i].quantity # None}

StartConcurrentLookup(t) == StartLookupFrom(t, ConcurrentNames, Quantities, ConcurrentUnits)
StartConcurrentRecipe(t) == StartRecipeFrom(t, ConcurrentRecipes)

NextConcurrent ==
    \E t \in TaskIds :
        \/ StartConcurrentLookup(t)
        \/ StartConcurrentRecipe(t)
        \/ CacheGet(t)
        \/ CallApiNinjas(t)
        \/ CallSpoonacular(t)
        \/ CallUsda(t)
        \/ CacheSet(t)

SpecConcurrent == InitConcurrent /\ [][NextConcurrent]_vars

\* The lookups alone. A step of a request is the completion of an await. The
\* awaits of the cache end (the cache helpers catch whatever the client
\* raises); the await of session.get() has no deadline in the code (no
\* timeout is passed to ClientSession() or to get()), so nothing makes a
\* provider's answer arrive and the provider steps carry no fairness.
NextLookup ==
    \E t \in TaskIds :
        \/ StartLookup(t)
        \/ CacheGet(t)
        \/ CallApiNinjas(t)
        \/ CallSpoonacular(t)
        \/ CallUsda(t)
        \/ CacheSet(t)

FairLookup == WF_vars(CacheGet(1)) /\ WF_vars(CacheSet(1))

SpecLive == Init /\ [][NextLookup]_vars /\ FairLookup

\* ------------------------------------------------------------ the functions alone
\* The converter and the estimator applied to inputs of their own: units of
\* the table in either case, cups, units the table does not have; quantities
\* the route lets through (any float, negative and zero included).
ConvertUnits ==
    {PyStr(<<"g">>),
     PyStr(<<"g","r","a","m">>),
     PyStr(<<"g","r","a","m","s">>),
     PyStr(<<"k","g">>),
     PyStr(<<"k","i","l","o","g","r","a","m">>),
     PyStr(<<"o","z">>),
     PyStr(<<"o","u","n","c","e">>),
     PyStr(<<"l","b">>),
     PyStr(<<"p","o","u","n","d">>),
     PyStr(<<"t","b","s","p">>),
     PyStr(<<"t","a","b","l","e","s","p","o","o","n">>),
     PyStr(<<"t","s","p">>),
     PyStr(<<"t","e","a","s","p","o","o","n">>),
     PyStr(<<"m","l">>),
     PyStr(<<"l","i","t","e","r">>),
     PyStr(<<"l">>),
     PyStr(<<"G">>),
     PyStr(<<"K","g">>),
     PyStr(<<"O","Z">>),
     PyStr(<<"T","b","s","p">>),
     PyStr(<<"c","u","p">>),
     PyStr(<<"c","u","p","s">>),
     PyStr(<<"C","u","p">>),
     PyStr(<<"C","U","P","S">>),
     PyStr(<<"p","i","n","c","h">>),
     PyStr(<<>>),
     PyStr(<<"1",".","0",":","g">>),
     PyStr(<<" ","g">>)}
ConvertNames ==
    {PyStr(<<"r","i","c","e">>),
     PyStr(<<"B","r","o","w","n"," ","S","u","g","a","r">>),
     PyStr(<<"f","l","o","u","r">>),
     PyStr(<<"w","a","t","e","r">>),
     PyStr(<<"t","o","f","u">>),
     PyStr(<<"r","i","c","e"," ","f","l","o","u","r">>)}
ConvertQuantities == {PyFloat(q) : q \in (0 - 1)..MaxConvertQuantity}
ConvertRecords ==
    {estimate_nutrition_heuristic(PyStr(<<"r","i","c","e">>)),
     estimate_nutrition_heuristic(PyStr(<<"t","o","f","u">>)),
     get_usda_nutrition([kind |-> "record", amounts |-> CHOOSE a \in UpstreamAmounts : TRUE])}
EstimateNames ==
    {PyStr(<<"C","h","i","c","k","e","n"," ","B","r","e","a","s","t">>),
     PyStr(<<"w","h","o","l","e"," ","m","i","l","k">>),
     PyStr(<<"r","i","c","e">>),
     PyStr(<<"c","a","r","r","o","t">>),
     PyStr(<<"a","p","p","l","e">>),
     PyStr(<<"o","l","i","v","e"," ","o","i","l">>),
     PyStr(<<"p","e","a","n","u","t"," ","b","u","t","t","e","r">>),
     PyStr(<<"t","o","f","u">>),
     PyStr(<<"s","a","l","t">>),
     PyStr(<<"R","I","C","E">>),
     PyStr(<<"o","a","t","m","e","a","l">>),
     PyStr(<<"b","e","e","f"," ","a","n","d"," ","r","i","c","e">>)}
\* What model.predict may give: any nine numbers, negative ones included.
EstimatePredictions ==
    UpstreamAmounts \cup
        {<<Dec(52,0), 0 - Dec(0,3), Dec(13,8), Dec(0,2), 0 - Dec(2,4), Dec(10,4),
           Dec(1,0), Dec(0,0), 0 - Dec(0,1)>>}
EstimateOutcomes ==
    IF config.ml_model = None THEN {[kind |-> "none"]}
    ELSE {[kind |-> "predict", predictions |-> a] : a \in EstimatePredictions}
             \cup {[kind |-> "raise"]}

InitFunctions ==
    /\ config \in {c \in ConfigsMl : c.api_ninjas_key.chars = <<>>}
    /\ cache = <<>>
    /\ now = 0
    /\ tasks = [t \in {1} |-> IdleTask]
    /\ resolutions = 0
    /\ stored = {}

\* self._convert_nutrition_to_quantity(nutrition_data, quantity, unit,
\* ingredient_name), as lines 158-161 call it; response keeps the local
\* grams_per_unit and the conversion of twice the quantity.
Convert(t) ==
    /\ tasks[t].pc = "idle"
    /\ \E nutrition_data \in ConvertRecords, ingredient_name \in ConvertNames,
          quantity \in ConvertQuantities, unit \in ConvertUnits :
        tasks' = [tasks EXCEPT ![t] =
            [IdleTask EXCEPT
                !.pc = "done", !.kind = "convert", !.idx = 1,
                !.ingredients = <<[name |-> ingredient_name, quantity |-> quantity,
                                   unit |-> unit]>>,
                !.nutrition_data = nutrition_data,
                !.result = convert_nutrition_to_quantity(nutrition_data, quantity, unit,
                                                         ingredient_name),
                !.response =
                    [type |-> "conversion",
                     grams_per_unit |-> grams_per_unit(unit, ingredient_name),
                     doubled |-> convert_nutrition_to_quantity(
                                     nutrition_data, PyFloat(2 * quantity.val), unit,
                                     ingredient_name)]]]
    /\ UNCHANGED <<config, cache, now, resolutions, stored>>

\* await self._estimate_nutrition_ml(ingredient_name), as line 156 calls it
Estimate(t) ==
    /\ tasks[t].pc = "idle"
    /\ \E ingredient_name \in EstimateNames, ml \in EstimateOutcomes :
        tasks' = [tasks EXCEPT ![t] =
            [IdleTask EXCEPT
                !.pc = "done", !.kind = "estimate", !.idx = 1,
                !.ingredients = <<[name |-> ingredient_name]>>,
                !.result = estimate_nutrition_ml(config.ml_model, ml, ingredient_name),
                !.response = [type |-> "estimation", ml |-> ml]]]
    /\ UNCHANGED <<config, cache, now, resolutions, stored>>

\* Lines 154-161 when the cascade left nothing: the estimator's record,
\* converted to the requested quantity and unit.
ResolveUnits ==
    {PyStr(<<"t","b","s","p">>), PyStr(<<"g">>), PyStr(<<"c","u","p">>)}
EstimateAndConvert(t) ==
    /\ tasks[t].pc = "idle"
    /\ \E ingredient_name \in EstimateNames, unit \in ResolveUnits, ml \in EstimateOutcomes :
        tasks' = [tasks EXCEPT ![t] =
            [IdleTask EXCEPT
                !.pc = "done", !.kind = "resolve", !.idx = 1,
                !.ingredients = <<[name |-> ingredient_name, quantity |-> PyFloat(1),
                                   unit |-> unit]>>,
                !.nutrition_data =
                    estimate_nutrition_ml(config.ml_model, ml, ingredient_name),
                !.result = convert_nutrition_to_quantity(
                               estimate_nutrition_ml(config.ml_model, ml, ingredient_name),
                               PyFloat(1), unit, ingredient_name),
                !.response = [type |-> "estimation", ml |-> ml]]]
    /\ UNCHANGED <<config, cache, now, resolutions, stored>>

\* What a USDA search may answer: up to MaxFoods foods, each with a
\* description (or none) and a data type of the two the request asks for;
\* fdcId is the food's position in the answer.
FoodDescriptions ==
    {PyStr(<<"R","i","c","e",","," ","w","h","i","t","e">>),
     PyStr(<<"B","r","o","w","n"," ","r","i","c","e"," ","f","l","o","u","r">>),
     PyStr(<<"B","e","e","f",","," ","g","r","o","u","n","d">>),
     Missing}
FoodDataTypes ==
    {PyStr(<<"F","o","u","n","d","a","t","i","o","n">>),
     PyStr(<<"S","R"," ","L","e","g","a","c","y">>)}
FoodLists ==
    UNION {{[i \in 1..n |-> [type |-> "dict", description |-> f[i].description,
                             dataType |-> f[i].dataType, fdcId |-> i]] :
               f \in [1..n -> [description : FoodDescriptions, dataType : FoodDataTypes]]} :
           n \in 0..MaxFoods}
MatchQueries ==
    {PyStr(<<"r","i","c","e">>),
     PyStr(<<"B","r","o","w","n"," ","R","i","c","e">>),
     PyStr(<<"r","i","c","e"," "," ","f","l","o","u","r">>),
     PyStr(<<"t","o","f","u">>)}

\* await self._get_usda_nutrition(ingredient_name) for a search answered
\* with foods; response keeps the answer and the local best_match.
MatchUsda(t) ==
    /\ tasks[t].pc = "idle"
    /\ \E foods \in FoodLists, ingredient_name \in MatchQueries :
        tasks' = [tasks EXCEPT ![t] =
            [IdleTask EXCEPT
                !.pc = "done", !.kind = "match", !.idx = 1,
                !.ingredients = <<[name |-> ingredient_name]>>,
                !.result = search_usda_nutrition(
                               foods, ingredient_name,
                               [kind |-> "record",
                                amounts |-> CHOOSE a \in UpstreamAmounts : TRUE]),
                !.response = [type |-> "match", foods |-> foods,
                              best_match |-> find_best_usda_match(foods, ingredient_name)]]]
    /\ UNCHANGED <<config, cache, now, resolutions, stored>>

\* What a provider reports for 100 g of a food, in its own units: energy in
\* kcal, sodium and cholesterol in mg, the others in g.
ReportedAmounts ==
    UpstreamAmounts \cup
        {<<Dec(165,0), Dec(31,0), Dec(0,0), Dec(3,6), Dec(0,0), Dec(0,0),
           Dec(74,0), Dec(85,0), Dec(1,0)>>}

\* One provider builds its record from the amounts it was given.
BuildRecord(t) ==
    /\ tasks[t].pc = "idle"
    /\ \E p \in 1..3, amounts \in ReportedAmounts :
        tasks' = [tasks EXCEPT ![t] =
            [IdleTask EXCEPT
                !.pc = "done", !.kind = "record", !.idx = 1,
                !.result =
                    CASE p = 1 -> get_api_ninjas_nutrition([kind |-> "record", amounts |-> amounts])
                      [] p = 2 -> get_spoonacular_nutrition([kind |-> "record", amounts |-> amounts])
                      [] p = 3 -> get_usda_nutrition([kind |-> "record", amounts |-> amounts]),
                !.response = [type |-> "reported", provider |-> ProviderOrder[p],
                              amounts |-> amounts]]]
    /\ UNCHANGED <<config, cache, now, resolutions, stored>>

\* What calculate_recipe_nutrition may return as the recipe's total: sums
\* of scaled records.
RecipeTotals ==
    {NutritionData(Dec(360,0), Dec(7,2), Dec(72,0), Dec(3,6), Dec(1,8), Dec(0,9),
                   Dec(180,0), Dec(0,0), Dec(0,9), "calculated", Conf(50)),
     NutritionData(Dec(1188,0), Dec(72,0), Dec(0,0), Dec(108,0), Dec(0,0), Dec(0,0),
                   Dec(252,0), Dec(198,0), Dec(32,4), "calculated", Conf(85)),
     ZeroTotal}

\* POST /calculate after the engine returned total_nutrition
CalculateRoute(t) ==
    /\ tasks[t].pc = "idle"
    /\ \E total_nutrition \in RecipeTotals, servings \in 0..MaxServings :
        tasks' = [tasks EXCEPT ![t] =
            [IdleTask EXCEPT
                !.pc = "done", !.kind = "calculate", !.idx = servings,
                !.total_nutrition = total_nutrition,
                !.response = calculate_nutrition_response(total_nutrition, servings)]]
    /\ UNCHANGED <<config, cache, now, resolutions, stored>>

NextFunctions ==
    \E t \in TaskIds :
        \/ Convert(t)
        \/ Estimate(t)
        \/ EstimateAndConvert(t)
        \/ MatchUsda(t)
        \/ BuildRecord(t)
        \/ CalculateRoute(t)

SpecFunctions == InitFunctions /\ [][NextFunctions]_vars

\* ------------------------------------------------------------ properties
Recipe(t) == tasks[t].kind = "recipe"
LookupDone(t) == tasks[t].kind = "lookup" /\ tasks[t].pc = "done"
RecipeDone(t) == tasks[t].kind = "recipe" /\ tasks[t].pc = "done"
Failed(task, i) == task.log[i].raised # "none"
\* The breakdown entries whose scaled record is a record.
Scaled(task) ==
    {j \in 1..Len(task.ingredient_nutritions) :
        IsNutritionData(task.ingredient_nutritions[j].total_nutrition)}
RECURSIVE SumOver(_, _, _)
SumOver(task, js, field) ==
    IF js = {} THEN 0
    ELSE LET j == CHOOSE j \in js : TRUE
         IN  task.ingredient_nutritions[j].total_nutrition[field]
                 + SumOver(task, js \ {j}, field)
\* The log entry was made by a resolution that has left the cascade.
PastCascade(task, i) ==
    i < Len(task.log) \/ task.pc \in {"cache_set", "done"}

\* C1: calculate_recipe_nutrition never raises; when it is done it returns
\* its result dict and every entry of the ingredient list has been processed,
\* those after an entry whose pipeline raised included.
C1_RecipeAlwaysCompletes ==
    \A t \in TaskIds :
        Recipe(t) =>
            /\ ~IsRaise(tasks[t].response)
            /\ tasks[t].pc = "done" =>
                /\ tasks[t].response.type = "dict"
                /\ Len(tasks[t].log) = Len(tasks[t].ingredients)
                /\ \A i \in 1..Len(tasks[t].log) : tasks[t].log[i].idx = i

\* A recipe is done whose first entry's pipeline raised and whose second
\* entry was resolved and accumulated.
C1_Witness ==
    \E t \in TaskIds :
        /\ RecipeDone(t)
        /\ Len(tasks[t].log) = 2
        /\ Failed(tasks[t], 1)
        /\ ~Failed(tasks[t], 2)
        /\ tasks[t].log[2].write = "ok"

\* C2: the consumer-facing lookup never ends in a failure: it answers 200
\* with a result whose per-100g and scaled members are nutrition records.
C2_LookupNeverFails ==
    \A t \in TaskIds :
        LookupDone(t) =>
            /\ tasks[t].response.status = 200
            /\ ~IsRaise(tasks[t].result)
            /\ IsNutritionData(tasks[t].result.nutrition_per_100g)
            /\ IsNutritionData(tasks[t].result.total_nutrition)

\* C3: for every entry whose pipeline raised, the fallback record's fields
\* are in the recipe total and 0.2 is the confidence the entry contributes.
C3_FallbackSubstituted ==
    \A t \in TaskIds :
        RecipeDone(t) =>
            LET task == tasks[t]
                failed == {i \in 1..Len(task.log) : Failed(task, i)}
                fallback == estimate_nutrition_fallback(None)
            IN  /\ \A i \in failed : task.confidence_scores[i] = fallback.confidence
                /\ \A f \in NumericFields :
                       task.total_nutrition[f] =
                           SumOver(task, Scaled(task), f) + Cardinality(failed) * fallback[f]

\* C4: the returned breakdown has one entry per input ingredient, in input
\* order, each with the ingredient's name and a record.
C4_BreakdownOnePerIngredient ==
    \A t \in TaskIds :
        RecipeDone(t) =>
            LET task == tasks[t]
            IN  /\ Len(task.ingredient_nutritions) = Len(task.ingredients)
                /\ \A i \in 1..Len(task.ingredient_nutritions) :
                       /\ i <= Len(task.ingredients)
                       /\ task.ingredient_nutritions[i].name = task.ingredients[i].name
                       /\ IsNutritionData(task.ingredient_nutritions[i].total_nutrition)

\* C5: each of the nine fields of total is the sum of that field over the
\* scaled records of the returned breakdown (zero for an empty list).
C5_TotalIsSumOfBreakdown ==
    \A t \in TaskIds :
        RecipeDone(t) =>
            LET task == tasks[t]
                all == 1..Len(task.ingredient_nutritions)
            IN  /\ Scaled(task) = all
                /\ \A f \in NumericFields :
                       task.total_nutrition[f] = SumOver(task, Scaled(task), f)

\* C6: total.confidence (and confidence_score) is the unweighted mean of the
\* scaled.confidence of the breakdown's entries, and 0.0 for an empty list.
C6_ConfidenceIsMeanOfBreakdown ==
    \A t \in TaskIds :
        RecipeDone(t) =>
            LET task == tasks[t]
                n == Len(task.ingredient_nutritions)
            IN  /\ Scaled(task) = 1..n
                /\ task.response.confidence_score = task.total_nutrition.confidence
                /\ RatEq(task.total_nutrition.confidence,
                         MeanConfidence([j \in 1..n |->
                             task.ingredient_nutritions[j].total_nutrition.confidence]))

\* C7: a request answered from the cache returns what the cache-miss request
\* for the same triple returned: same name, quantity, unit and records.
C7_CacheRoundTrip ==
    \A t \in TaskIds :
        (LookupDone(t) /\ Cur(tasks[t]).read = "hit") =>
            \E h \in stored :
                /\ h.seq < Cur(tasks[t]).seq
                /\ tasks[t].result = h.result

\* C8: a request whose cache read is answered by the store less than the TTL
\* after an identical request stored its result invokes no provider and no
\* estimator.
C8_SecondRequestInvokesNothing ==
    \A t \in TaskIds :
        \A i \in 1..Len(tasks[t].log) :
            LET e == tasks[t].log[i]
            IN  (/\ e.read \in {"hit", "miss"}
                 /\ \E h \in stored :
                        /\ h.seq < e.seq
                        /\ [name |-> h.name, quantity |-> h.quantity, unit |-> h.unit]
                               = ArgsAt(tasks[t], e.idx)
                        /\ e.readAt * TickSeconds < h.at * TickSeconds + cache_ttl)
                    => e.read = "hit" /\ e.calls = <<>>

\* A lookup has been answered from the cache after an identical one stored
\* its result.
C8_Witness ==
    \E t \in TaskIds :
        /\ LookupDone(t)
        /\ Cur(tasks[t]).read = "hit"
        /\ Cur(tasks[t]).calls = <<>>
        /\ \E h \in stored :
               /\ h.seq < Cur(tasks[t]).seq
               /\ [name |-> h.name, quantity |-> h.quantity, unit |-> h.unit]
                      = ArgsAt(tasks[t], 1)

\* C9: a request answered from the cache is answered with the entry of its
\* own (name, quantity, unit) triple.
C9_KeysExactPerTriple ==
    \A t \in TaskIds :
        (LookupDone(t) /\ Cur(tasks[t]).read = "hit") =>
            /\ tasks[t].result.name = ArgName(tasks[t])
            /\ tasks[t].result.quantity = ArgQuantity(tasks[t])
            /\ tasks[t].result.unit = ArgUnit(tasks[t])

\* C10: a cache read that raises is a miss (no error reaches the caller, the
\* cascade runs); a cache write that raises leaves the computed result to be
\* returned (200 with that result for a lookup, accumulated for a recipe).
C10_CacheUnavailableIsMiss ==
    \A t \in TaskIds :
        \A i \in 1..Len(tasks[t].log) :
            LET task == tasks[t]
                e == task.log[i]
            IN  /\ e.read = "unavailable" =>
                    /\ e.raised # "ConnectionError"
                    /\ PastCascade(task, i) => e.calls # <<>>
                    /\ LookupDone(t) => task.response.status = 200
                /\ e.write = "unavailable" =>
                    /\ e.raised = "none"
                    /\ LookupDone(t) =>
                        /\ task.response.status = 200
                        /\ task.response.total_nutrition = task.result.total_nutrition
                        /\ task.result.nutrition_per_100g = task.nutrition_data
                    /\ Recipe(t) =>
                        \E j \in Scaled(task) :
                            /\ task.ingredient_nutritions[j].name = ArgsAt(task, e.idx).name
                            /\ task.ingredient_nutritions[j].quantity
                                   = ArgsAt(task, e.idx).quantity

\* A lookup returned 200 although neither the cache read nor the cache
\* write reached the store.
C10_Witness ==
    \E t \in TaskIds :
        /\ LookupDone(t)
        /\ Cur(tasks[t]).read = "unavailable"
        /\ Cur(tasks[t]).write = "unavailable"
        /\ tasks[t].response.status = 200

\* ------------------------------------------------------------ cascade properties
\* Position of a callee in the cascade: the three providers, then the estimator.
Rank(who) ==
    CASE who = "api_ninjas" -> 1
      [] who = "spoonacular" -> 2
      [] who = "usda" -> 3
      [] who = "estimator" -> 4
Configured(p) ==
    CASE p = 1 -> config.api_ninjas_key.chars # <<>>
      [] p = 2 -> config.spoonacular_api_key.chars # <<>>
      [] p = 3 -> config.usda_api_key.chars # <<>>
\* The cache did not answer the resolution of log entry i and its cascade is over.
Resolved(task, i) ==
    PastCascade(task, i) /\ task.log[i].read \in {"miss", "unavailable"}
\* No external provider called for the entry returned a record.
Exhausted(e) ==
    \A j \in 1..Len(e.calls) :
        e.calls[j] # "estimator" => ~IsNutritionData(e.returned[j])

\* C11: when no external provider returned a record (or none is configured)
\* the estimator is called last and returns a record with source "estimated",
\* the category heuristic's when no model is loaded or the prediction raised;
\* that record is the per-100g record of the result the lookup returns.
C11_ExhaustionGivesEstimate ==
    \A t \in TaskIds :
        \A i \in 1..Len(tasks[t].log) :
            LET task == tasks[t]
                e == task.log[i]
                n == Len(e.calls)
            IN  (Resolved(task, i) /\ Exhausted(e)) =>
                    /\ n >= 1
                    /\ e.calls[n] = "estimator"
                    /\ IsNutritionData(e.returned[n])
                    /\ e.returned[n].source = "estimated"
                    /\ (e.ml = "none") <=> (config.ml_model = None)
                    /\ e.ml \in {"none", "raise"} =>
                           e.returned[n] = estimate_nutrition_heuristic(ArgsAt(task, e.idx).name)
                    /\ LookupDone(t) =>
                           /\ e.raised = "none"
                           /\ task.result.nutrition_per_100g = e.returned[n]

\* A lookup is done for which all three providers returned nothing and the
\* loaded model's prediction raised.
C11_Witness ==
    \E t \in TaskIds :
        /\ LookupDone(t)
        /\ config.ml_model = Loaded
        /\ Cur(tasks[t]).calls = <<"api_ninjas", "spoonacular", "usda", "estimator">>
        /\ Cur(tasks[t]).ml = "raise"
        /\ tasks[t].result.nutrition_per_100g.source = "estimated"

\* C12: in one resolution the callees are called in the order API Ninjas,
\* Spoonacular, USDA, each at most once; a provider is called only after every
\* configured provider before it was called and returned no record; after a
\* provider returned a record of confidence >= 0.7 nothing more is called.
C12_CascadeOrder ==
    \A t \in TaskIds :
        \A i \in 1..Len(tasks[t].log) :
            LET e == tasks[t].log[i]
                n == Len(e.calls)
            IN  /\ \A j \in 1..n : \A k \in 1..n :
                       j < k => Rank(e.calls[j]) < Rank(e.calls[k])
                /\ \A k \in 1..n :
                       e.calls[k] # "estimator" =>
                           \A p \in 1..(Rank(e.calls[k]) - 1) :
                               Configured(p) =>
                                   \E j \in 1..(k - 1) :
                                       /\ e.calls[j] = ProviderOrder[p]
                                       /\ ~IsNutritionData(e.returned[j])
                /\ \A j \in 1..n :
                       (/\ e.calls[j] # "estimator"
                        /\ IsNutritionData(e.returned[j])
                        /\ ~RatLess(e.returned[j].confidence, Conf(70)))
                           => j = n

\* With all three credentials set, API Ninjas returned nothing, Spoonacular
\* a record, and the lookup is done without a call to USDA or the estimator.
C12_Witness ==
    \E t \in TaskIds :
        /\ LookupDone(t)
        /\ Configured(1) /\ Configured(2) /\ Configured(3)
        /\ Cur(tasks[t]).calls = <<"api_ninjas", "spoonacular">>
        /\ ~IsNutritionData(Cur(tasks[t]).returned[1])
        /\ IsNutritionData(Cur(tasks[t]).returned[2])

\* C14: a provider without credential is never called; the configured ones
\* are called in order until one returns a record; with no credential at all
\* only the estimator is called and its record is returned.
C14_AbsentCredentialSkipped ==
    \A t \in TaskIds :
        \A i \in 1..Len(tasks[t].log) :
            LET task == tasks[t]
                e == task.log[i]
                n == Len(e.calls)
                none == ~Configured(1) /\ ~Configured(2) /\ ~Configured(3)
            IN  /\ \A k \in 1..n :
                       e.calls[k] # "estimator" => Configured(Rank(e.calls[k]))
                /\ Resolved(task, i) =>
                       \A p \in 1..3 :
                           Configured(p) =>
                               \/ \E k \in 1..n : e.calls[k] = ProviderOrder[p]
                               \/ \E k \in 1..n :
                                      /\ Rank(e.calls[k]) < p
                                      /\ IsNutritionData(e.returned[k])
                /\ (Resolved(task, i) /\ none) =>
                       /\ e.calls = <<"estimator">>
                       /\ LookupDone(t) =>
                              /\ task.result.nutrition_per_100g = e.returned[1]
                              /\ task.result.nutrition_per_100g.source = "estimated"

\* Only the USDA credential is set and a lookup is done whose only call went
\* to USDA.
C14_Witness ==
    \E t \in TaskIds :
        /\ LookupDone(t)
        /\ ~Configured(1) /\ ~Configured(2) /\ Configured(3)
        /\ Cur(tasks[t]).calls = <<"usda">>
        /\ tasks[t].result.nutrition_per_100g.source = "usda"

\* ------------------------------------------------------------ converter properties
Converted(t) == tasks[t].kind = "convert" /\ tasks[t].pc = "done"
Estimated(t) == tasks[t].kind = "estimate" /\ tasks[t].pc = "done"
ConvertedUnit(t) == Lower(tasks[t].ingredients[1].unit.chars)
\* field * (quantity * grams) / 100, in the fixed-point units (amounts with
\* one decimal place, as the tables and the sample answers have).
TimesGrams(value, quantity, grams) == (value \div 10000) * (quantity * grams)

\* C15: every numeric field of the scaled record is the per-100g field times
\* (quantity x grams_per_unit) / 100, source and confidence are copied, and
\* twice the quantity gives exactly twice every numeric field.
C15_ScaledIsPer100gTimesGrams ==
    \A t \in TaskIds :
        Converted(t) =>
            LET task == tasks[t]
                n == task.nutrition_data
                quantity == task.ingredients[1].quantity.val
                grams == task.response.grams_per_unit
                scaled == task.result
                doubled == task.response.doubled
            IN  /\ IsNutritionData(scaled)
                /\ \A f \in NumericFields :
                       /\ n[f] % 10000 = 0
                       /\ scaled[f] = TimesGrams(n[f], quantity, grams)
                       /\ doubled[f] = 2 * scaled[f]
                /\ scaled.source = n.source
                /\ scaled.confidence = n.confidence
                /\ doubled.source = n.source
                /\ doubled.confidence = n.confidence

\* Two ounces of a food with calories have been converted.
C15_Witness ==
    \E t \in TaskIds :
        /\ Converted(t)
        /\ tasks[t].ingredients[1].quantity.val = 2
        /\ tasks[t].ingredients[1].unit.chars = <<"o","z">>
        /\ tasks[t].result.calories > 0
        /\ tasks[t].response.doubled.calories = 2 * tasks[t].result.calories

\* The unit table as the claim gives it, for a lowercased unit.
ClaimedGrams(u) ==
    CASE u \in {<<"g">>, <<"g","r","a","m">>, <<"g","r","a","m","s">>, <<"m","l">>} -> Grams(1, 0)
      [] u \in {<<"k","g">>, <<"k","i","l","o","g","r","a","m">>, <<"l">>, <<"l","i","t","e","r">>} -> Grams(1000, 0)
      [] u \in {<<"o","z">>, <<"o","u","n","c","e">>} -> Grams(28, 35)
      [] u \in {<<"l","b">>, <<"p","o","u","n","d">>} -> Grams(453, 59)
      [] u \in {<<"t","b","s","p">>, <<"t","a","b","l","e","s","p","o","o","n">>} -> Grams(15, 0)
      [] u \in {<<"t","s","p">>, <<"t","e","a","s","p","o","o","n">>} -> Grams(5, 0)
      [] OTHER -> Grams(100, 0)

\* C16: a unit other than cup/cups is converted, whatever its case, at the
\* grams per unit of the table, and at 100 g per unit when the table does not
\* have it; the conversion returns a record.
C16_UnitTable ==
    \A t \in TaskIds :
        (Converted(t) /\ ~IsCup(ConvertedUnit(t))) =>
            LET task == tasks[t]
            IN  /\ task.response.grams_per_unit = ClaimedGrams(ConvertedUnit(t))
                /\ IsNutritionData(task.result)
                /\ task.result.calories =
                       TimesGrams(task.nutrition_data.calories,
                                  task.ingredients[1].quantity.val,
                                  ClaimedGrams(ConvertedUnit(t)))

\* A unit the table does not have was converted at 100 g per unit.
C16_Witness ==
    \E t \in TaskIds :
        /\ Converted(t)
        /\ tasks[t].ingredients[1].unit.chars = <<"p","i","n","c","h">>
        /\ tasks[t].ingredients[1].quantity.val = 1
        /\ tasks[t].response.grams_per_unit = Grams(100, 0)
        /\ tasks[t].result.calories = tasks[t].nutrition_data.calories

\* The cup-weight entries whose key is a substring of the lowercased name.
MatchingCupWeights(ingredient_name) ==
    {k \in 1..Len(cup_weights) :
        Contains(Lower(ingredient_name.chars), cup_weights[k][1])}

\* C17: for cup/cups grams per unit is the weight of a cup-weight entry whose
\* key is a substring of the lowercased name, and 240 g when there is none;
\* for every other unit the name changes neither grams per unit nor the
\* conversion.
C17_CupWeight ==
    \A t \in TaskIds :
        Converted(t) =>
            LET task == tasks[t]
                ingredient == task.ingredients[1]
                matching == MatchingCupWeights(ingredient.name)
            IN  IF IsCup(ConvertedUnit(t))
                THEN IF matching = {}
                     THEN task.response.grams_per_unit = Grams(240, 0)
                     ELSE \E k \in matching :
                              task.response.grams_per_unit = cup_weights[k][2]
                ELSE \A other \in ConvertNames :
                         /\ grams_per_unit(ingredient.unit, other)
                                = task.response.grams_per_unit
                         /\ convert_nutrition_to_quantity(
                                task.nutrition_data, ingredient.quantity,
                                ingredient.unit, other) = task.result

\* A "Cup" of rice was converted at the table's 185 g.
C17_Witness ==
    \E t \in TaskIds :
        /\ Converted(t)
        /\ tasks[t].ingredients[1].unit.chars = <<"C","u","p">>
        /\ tasks[t].ingredients[1].name.chars = <<"r","i","c","e">>
        /\ tasks[t].response.grams_per_unit = Grams(185, 0)

\* C18: no numeric field of a returned record is negative; a quantity <= 0 is
\* rejected or clamped by the converter.
C18_NonNegative ==
    \A t \in TaskIds :
        /\ Converted(t) =>
               \/ IsRaise(tasks[t].result)
               \/ \A f \in NumericFields : tasks[t].result[f] >= 0
        /\ Estimated(t) =>
               \A f \in NumericFields : tasks[t].result[f] >= 0

\* ------------------------------------------------------------ confidence properties
InRange(confidence) ==
    /\ confidence.den > 0
    /\ 0 <= confidence.num
    /\ confidence.num <= confidence.den
HasConfidenceInRange(record) ==
    IsNutritionData(record) /\ InRange(record.confidence)

\* C19: the confidence of every returned record (per-100g, scaled, recipe
\* total) lies in [0, 1], for results served from the cache and for recipes
\* with failed ingredients too.
C19_ConfidenceInRange ==
    \A t \in TaskIds :
        /\ (LookupDone(t) /\ ~IsRaise(tasks[t].result)) =>
               /\ HasConfidenceInRange(tasks[t].result.nutrition_per_100g)
               /\ HasConfidenceInRange(tasks[t].result.total_nutrition)
        /\ RecipeDone(t) =>
               /\ HasConfidenceInRange(tasks[t].response.total_nutrition)
               /\ InRange(tasks[t].response.confidence_score)
               /\ \A j \in 1..Len(tasks[t].ingredient_nutritions) :
                      /\ HasConfidenceInRange(
                             tasks[t].ingredient_nutritions[j].nutrition_per_100g)
                      /\ HasConfidenceInRange(
                             tasks[t].ingredient_nutritions[j].total_nutrition)

\* ------------------------------------------------------------ estimator properties
NoCategoryKeyword(ingredient_name) ==
    \A i \in 1..Len(food_categories) :
        \A k \in 1..Len(food_categories[i].patterns) :
            ~Contains(Lower(ingredient_name.chars), food_categories[i].patterns[k])

\* C20: with no model loaded, a name that has no category keyword is
\* estimated as the generic profile: 100 kcal, 3 protein, 15 carbohydrates,
\* 2 fat, 1 fiber, 5 sugar, 50 sodium, 5 cholesterol, 0.5 saturated fat,
\* source "estimated", confidence 0.3.
C20_GenericProfile ==
    \A t \in TaskIds :
        (/\ Estimated(t)
         /\ config.ml_model = None
         /\ NoCategoryKeyword(tasks[t].ingredients[1].name)) =>
            tasks[t].result =
                NutritionData(Dec(100,0), Dec(3,0), Dec(15,0), Dec(2,0), Dec(1,0),
                              Dec(5,0), Dec(50,0), Dec(5,0), Dec(0,5),
                              "estimated", Conf(30))

\* "tofu" has been estimated without a model.
C20_Witness ==
    \E t \in TaskIds :
        /\ Estimated(t)
        /\ config.ml_model = None
        /\ tasks[t].ingredients[1].name.chars = <<"t","o","f","u">>
        /\ NoCategoryKeyword(tasks[t].ingredients[1].name)
        /\ tasks[t].result.confidence = Conf(30)

\* ------------------------------------------------------------ category properties
ClaimedCategoryOrder == <<"protein", "dairy", "grains", "vegetables", "fruits", "oils">>
MatchingCategories(ingredient_name) ==
    {c \in 1..Len(food_categories) :
        \E k \in 1..Len(food_categories[c].patterns) :
            Contains(Lower(ingredient_name.chars), food_categories[c].patterns[k])}
OliveOil == PyStr(<<"o","l","i","v","e"," ","o","i","l">>)

\* C21: with no model loaded the estimate of a name is the profile, at
\* confidence 0.5, of the first category in the order protein, dairy, grains,
\* vegetables, fruits, oils with a keyword inside the lowercased name;
\* "olive oil" gets the oils profile (884 kcal, 0 protein, 0 carbohydrates,
\* 100 fat) and 1 tbsp of it is 132.6 kcal and 15.0 g fat at confidence 0.5.
C21_CategoryHeuristic ==
    \A t \in TaskIds :
        LET task == tasks[t]
            name == task.ingredients[1].name
            matching == MatchingCategories(name)
            first == CHOOSE c \in matching : \A d \in matching : c <= d
            estimate == IF task.kind = "estimate" THEN task.result ELSE task.nutrition_data
        IN  /\ \A c \in 1..Len(food_categories) :
                   food_categories[c].category = ClaimedCategoryOrder[c]
            /\ ((Estimated(t) \/ (task.kind = "resolve" /\ task.pc = "done"))
                    /\ config.ml_model = None /\ matching # {}) =>
                   /\ estimate = food_categories[first].nutrition
                   /\ RatEq(estimate.confidence, Conf(50))
            /\ (task.kind = "resolve" /\ task.pc = "done" /\ config.ml_model = None
                    /\ name = OliveOil) =>
                   /\ task.nutrition_data.calories = Dec(884, 0)
                   /\ task.nutrition_data.protein = 0
                   /\ task.nutrition_data.carbohydrates = 0
                   /\ task.nutrition_data.fat = Dec(100, 0)
                   /\ task.ingredients[1].unit.chars = <<"t","b","s","p">> =>
                          /\ task.result.calories = Dec(132, 6)
                          /\ task.result.fat = Dec(15, 0)
                          /\ RatEq(task.result.confidence, Conf(50))

C21_Witness ==
    \E t \in TaskIds :
        /\ tasks[t].kind = "resolve" /\ tasks[t].pc = "done"
        /\ config.ml_model = None
        /\ tasks[t].ingredients[1].name = OliveOil
        /\ tasks[t].ingredients[1].unit.chars = <<"t","b","s","p">>
        /\ tasks[t].result.calories = Dec(132, 6)
        /\ tasks[t].nutrition_data = food_categories[6].nutrition

\* ------------------------------------------------------------ progress properties
InProviderCall(t) == tasks[t].pc \in {"api_ninjas", "spoonacular", "usda"}

C23_CancellationPropagates ==
    \A t \in TaskIds :
        tasks[t].cancelled # "none" =>
            LET task == tasks[t]
                e == Cur(task)
            IN  /\ task.pc = "done"
                /\ task.response = Raise("CancelledError")
                /\ e.raised = "CancelledError"
                /\ e.idx = task.idx
                /\ Len(task.log) = task.idx
                /\ Len(task.confidence_scores) = task.idx - 1
                /\ Len(task.ingredient_nutritions) <= task.idx - 1

C23_Witness ==
    \E t \in TaskIds :
        /\ tasks[t].cancelled = "usda"
        /\ tasks[t].idx = 1
        /\ Len(tasks[t].ingredients) = 2
        /\ Cur(tasks[t]).calls = <<"api_ninjas", "spoonacular">>
        /\ tasks[t].response = Raise("CancelledError")

\* ------------------------------------------------------------ cache write properties
\* The resolution of log entry i has ended.
Finished(task, i) == i < Len(task.log) \/ task.pc = "done"
WritesOf(seq) == {h \in stored : h.seq = seq}

\* C24: a resolution that missed the cache and produced a result made one
\* cache write, of the scaled result, under the key it read, with a TTL of
\* 24 hours, whichever source gave the record; a resolution answered by the
\* cache made no write and no provider or estimator call; nothing is in the
\* cache but what these writes put there.
C24_CacheWriteProtocol ==
    /\ \A t \in TaskIds :
           \A i \in 1..Len(tasks[t].log) :
               LET task == tasks[t]
                   e == task.log[i]
                   args == ArgsAt(task, e.idx)
               IN  /\ (e.read \in {"miss", "unavailable"} /\ Finished(task, i)
                           /\ e.raised = "none") =>
                          /\ e.write \in {"ok", "unavailable"}
                          /\ e.calls # <<>>
                          /\ e.write = "ok" =>
                                 /\ Cardinality(WritesOf(e.seq)) = 1
                                 /\ \A h \in WritesOf(e.seq) :
                                        /\ [name |-> h.name, quantity |-> h.quantity,
                                            unit |-> h.unit] = args
                                        /\ e.readAt <= h.at
                                        /\ h.result.nutrition_per_100g
                                               = e.returned[Len(e.returned)]
                                        /\ h.result.total_nutrition =
                                               convert_nutrition_to_quantity(
                                                   h.result.nutrition_per_100g,
                                                   h.quantity, h.unit, h.name)
                          /\ e.write = "unavailable" => WritesOf(e.seq) = {}
                   /\ e.read = "hit" =>
                          /\ e.calls = <<>>
                          /\ e.write = "none"
                          /\ WritesOf(e.seq) = {}
                   /\ e.write = "none" => WritesOf(e.seq) = {}
    /\ \A key \in DOMAIN cache :
           \E h \in stored :
               /\ key = CacheKey(h.name, h.quantity, h.unit)
               /\ cache[key].text = JsonDumps(InstanceDict(h.result))
               /\ cache[key].expires = h.at * TickSeconds + 24 * 60 * 60

C24_Witness ==
    \E t \in TaskIds :
        /\ LookupDone(t)
        /\ Cur(tasks[t]).read = "miss"
        /\ Cur(tasks[t]).calls = <<"api_ninjas", "spoonacular">>
        /\ Cur(tasks[t]).write = "ok"
        /\ ArgKey(tasks[t]) \in DOMAIN cache
        /\ cache[ArgKey(tasks[t])].expires = now * TickSeconds + 24 * 60 * 60
        /\ tasks[t].result.nutrition_per_100g.source = "spoonacular"
        /\ tasks[t].result.total_nutrition # tasks[t].result.nutrition_per_100g

\* ------------------------------------------------------------ match properties
Matched(t) == tasks[t].kind = "match" /\ tasks[t].pc = "done"
Foundation == PyStr(<<"F","o","u","n","d","a","t","i","o","n">>)
DescriptionOf(food) ==
    IF food.description = Missing THEN <<>> ELSE Lower(food.description.chars)
\* The score the claim gives a candidate for a query.
ClaimedScore(food, query) ==
    LET words == Split(Lower(query.chars))
    IN  SumSeq([k \in 1..Len(words) |->
                   IF Contains(DescriptionOf(food), words[k]) THEN 1 ELSE 0])
            + (IF Contains(DescriptionOf(food), Lower(query.chars)) THEN 5 ELSE 0)
            + (IF food.dataType = Foundation THEN 1 ELSE 0)

\* C25: the candidate selected is the one with the highest score (+1 per
\* query word in the lowercased description, +5 for the whole lowercased
\* query in it, +1 for dataset type "Foundation"), the earliest of those on
\* a tie; when every candidate scores 0 the provider reports no match.
C25_BestMatch ==
    \A t \in TaskIds :
        Matched(t) =>
            LET foods == tasks[t].response.foods
                query == tasks[t].ingredients[1].name
                best == tasks[t].response.best_match
                positive == {i \in 1..Len(foods) : ClaimedScore(foods[i], query) > 0}
            IN  IF positive = {}
                THEN best = None /\ tasks[t].result = None
                ELSE /\ best \in {foods[i] : i \in positive}
                     /\ \A i \in 1..Len(foods) :
                            /\ ClaimedScore(foods[i], query)
                                   <= ClaimedScore(best, query)
                            /\ ClaimedScore(foods[i], query) = ClaimedScore(best, query)
                                   => best.fdcId <= i
                     /\ IsNutritionData(tasks[t].result)

C25_Witness ==
    \E t \in TaskIds :
        /\ Matched(t)
        /\ Len(tasks[t].response.foods) = 2
        /\ tasks[t].ingredients[1].name.chars = <<"B","r","o","w","n"," ","R","i","c","e">>
        /\ ClaimedScore(tasks[t].response.foods[1], tasks[t].ingredients[1].name) = 7
        /\ ClaimedScore(tasks[t].response.foods[2], tasks[t].ingredients[1].name) = 7
        /\ tasks[t].response.best_match.fdcId = 1

\* C29: a candidate whose description has none of the query's words (and not
\* the whole query) is never selected, whatever its dataset type.
C29_UnrelatedNeverSelected ==
    \A t \in TaskIds :
        (Matched(t) /\ tasks[t].response.best_match # None) =>
            LET best == tasks[t].response.best_match
                query == Lower(tasks[t].ingredients[1].name.chars)
            IN  \/ Contains(DescriptionOf(best), query)
                \/ \E k \in 1..Len(Split(query)) :
                       Contains(DescriptionOf(best), Split(query)[k])

\* ------------------------------------------------------------ provider unit properties
\* C30: the sodium and the cholesterol of the record a provider builds are
\* the amounts the provider reported, in mg per 100 g, unchanged, for each
\* of the three providers.
C30_SodiumAsReported ==
    \A t \in TaskIds :
        (tasks[t].kind = "record" /\ tasks[t].pc = "done") =>
            /\ tasks[t].result.sodium = tasks[t].response.amounts[7]
            /\ tasks[t].result.cholesterol = tasks[t].response.amounts[8]

\* ------------------------------------------------------------ handler properties
\* C27: the per-ingredient handler never raises: whatever the entry (no
\* "name", "quantity" or "unit" absent or null), a failure in the try block
\* is absorbed and the loop goes on to the next entry, so the calculation
\* returns its dict with every entry processed.
C27_HandlerNeverRaises ==
    \A t \in TaskIds :
        \A i \in 1..Len(tasks[t].log) :
            (Recipe(t) /\ Failed(tasks[t], i)) =>
                /\ ~IsRaise(tasks[t].response)
                /\ tasks[t].pc = "done" =>
                       /\ tasks[t].response.type = "dict"
                       /\ Len(tasks[t].log) = Len(tasks[t].ingredients)

\* ------------------------------------------------------------ servings properties
\* C28: for servings >= 1 the response of /calculate gives, for each of the
\* nine fields, per_serving = recipe total / servings, and total_nutrition =
\* the whole-recipe total the engine returned.
C28_PerServing ==
    \A t \in TaskIds :
        (tasks[t].kind = "calculate" /\ tasks[t].pc = "done" /\ tasks[t].idx >= 1) =>
            /\ tasks[t].response.status = 200
            /\ \A f \in NumericFields :
                   /\ tasks[t].response.per_serving[f] * tasks[t].idx
                          = tasks[t].total_nutrition[f]
                   /\ tasks[t].response.total_nutrition[f] = tasks[t].total_nutrition[f]

\* ------------------------------------------------------------ C26
\* The key a completed write went to.
WrittenKey(h) == CacheKey(h.name, h.quantity, h.unit)
\* The text a completed write left in the store.
WrittenText(h) == JsonDumps(InstanceDict(h.result))

\* What a request builds of its own: one log entry per resolution it has
\* started, in the order of its list, and, once a recipe has returned, the
\* breakdown and the confidence it accumulated itself.
BuiltFromOwn(t) ==
    LET task == tasks[t]
    IN  /\ Len(task.log) <= Len(task.ingredients)
        /\ \A i \in 1..Len(task.log) : task.log[i].idx = i
        /\ \A u \in TaskIds \ {t} :
               \A i \in 1..Len(task.log), j \in 1..Len(tasks[u].log) :
                   task.log[i].seq # tasks[u].log[j].seq
        /\ RecipeDone(t) =>
               /\ Len(task.log) = Len(task.ingredients)
               /\ Len(task.confidence_scores) = Len(task.ingredients)
               /\ task.response.ingredient_nutritions = task.ingredient_nutritions
               /\ task.response.total_nutrition = task.total_nutrition
               /\ task.total_nutrition.confidence = MeanConfidence(task.confidence_scores)
               /\ \A f \in NumericFields :
                      task.total_nutrition[f] = SumOver(task, Scaled(task), f)

\* Every entry of the cache is the complete text of one completed write to
\* its key.
CacheHoldsWholeResults ==
    \A k \in DOMAIN cache :
        \E h \in stored : WrittenKey(h) = k /\ WrittenText(h) = cache[k].text

\* A step is a step of one request; it leaves the other requests and the
\* configuration as they were; the cache changes only by a completed write,
\* after which the written key holds the writer's complete result and every
\* other key what it held.
IsolatedStep ==
    /\ config' = config
    /\ \A t \in TaskIds :
           tasks'[t] # tasks[t] => \A u \in TaskIds \ {t} : tasks'[u] = tasks[u]
    /\ stored' = stored => cache' = cache
    /\ \A h \in stored' \ stored :
           /\ WrittenKey(h) \in DOMAIN cache'
           /\ cache'[WrittenKey(h)].text = WrittenText(h)
           /\ \A k \in DOMAIN cache' \ {WrittenKey(h)} :
                  k \in DOMAIN cache /\ cache'[k] = cache[k]

\* C26: under any interleaving of two requests on the shared engine, a step
\* of one request changes nothing of the other and nothing of the engine's
\* configuration; each request's log, breakdown, total and confidence are
\* built from its own resolutions; and the cache holds, under every key, the
\* complete result of one writer, the last one to have written.
C26_RequestIsolation ==
    /\ [](\A t \in TaskIds : BuiltFromOwn(t))
    /\ []CacheHoldsWholeResults
    /\ [][IsolatedStep]_vars

\* Two recipes missed the same key before either wrote it, resolved it
\* differently and both wrote; the cache holds the whole result of one.
C26_Witness ==
    /\ DOMAIN tasks = {1, 2}
    /\ RecipeDone(1) /\ RecipeDone(2)
    /\ Len(tasks[1].ingredients) = 1 /\ Len(tasks[2].ingredients) = 2
    /\ \E h1 \in stored, h2 \in stored :
           /\ h1.seq = tasks[1].log[1].seq
           /\ h2.seq = tasks[2].log[1].seq
           /\ WrittenKey(h1) = WrittenKey(h2)
           /\ tasks[1].log[1].read = "miss" /\ tasks[2].log[1].read = "miss"
           /\ h1.result # h2.result
           /\ WrittenKey(h1) \in DOMAIN cache
           /\ cache[WrittenKey(h1)].text = WrittenText(h2)
           /\ tasks[1].total_nutrition # tasks[2].total_nutrition

====
